---- MODULE Spec2Model ----
(***************************************************************************)
(* Connection registry (hub/hub.go) and the /ws session lifecycle          *)
(* (main.go) of go-websocket-simple-chat-app.                               *)
(*                                                                         *)
(* Spec     : NConns concurrent /ws handler goroutines, each stepping      *)
(*            through the handler's code; the hub's RWMutex is explicit.   *)
(* FairSpec : Spec with weak fairness on every handler step that is not    *)
(*            an input of the environment.                                  *)
(* HubSpec  : Hub.Register / Hub.Unregister called directly with arbitrary *)
(*            arguments, one call at a time, up to MaxCalls calls.         *)
(* RouterSpec : Spec plus the read loop's processing of inbound payloads.  *)
(***************************************************************************)
EXTENDS Integers, Sequences, FiniteSets, TLC

\* ---------------------------------------------------------------- bounds
NConns == 2
NUsers == 2
MaxCalls == 4

Conns == 1..NConns          \* one *websocket.Conn per /ws request
\* BroadcastSpec has one connection more than there are handlers, so that a
\* Broadcast that excludes a user still has two connections to write to.
FanoutConns == 1..(NConns + 1)
Users == 1..NUsers          \* users.id (SERIAL, positive)

VARIABLES
    clients,    \* Hub.clients : user id -> set of connections (a partial map)
    mu,         \* Hub.mu      : [w |-> the writer, if any, r |-> the readers]
    sess,       \* per handler goroutine: program counter and locals
    status,     \* users.status column of the durable store
    log,        \* per handler: the calls it has made so far (history)
    live,       \* history: connections registered and not yet unregistered
    periods,    \* history: times the user's key went absent -> present
    ended,      \* history: times the user's key went present -> absent
    dbFailed,   \* history: an UpdateUserStatus for the user has failed
    hub,        \* HubSpec: number of calls, the last call, true results so far
    work,       \* per handler: the payload its read loop is processing, the
                \* loop's locals, and the calls made for that payload so far
    writes,     \* the goroutines Broadcast has started, one per write, and
                \* how far each has got with its WriteMessage
    hist        \* history: per connection, the calls of its handler's read
                \* loop over all its iterations and the writes Broadcast's
                \* goroutines made on it, kept where its history is on

vars ==
    <<clients, mu, sess, status, log, live, periods, ended, dbFailed, hub, work, writes, hist>>

\* ------------------------------------------------------------ the tokens
\* What a /ws request can present as its "token" query parameter.
Tokens ==
    [kind : {"missing", "malformed"}, uid : {0}]
    \cup [kind : {"expired", "valid"}, uid : Users]

\* paseto.Decrypt with the server's key: fails on anything it did not issue.
Decrypts(t) == t.kind \in {"expired", "valid"}

\* Payload.Valid: the token's expiry time has not passed.
PayloadValid(t) == t.kind # "expired"

\* Faulty variant: the payload's expiry is not checked.
VerifyTokenSkipsValid(t) ==
    IF ~Decrypts(t) THEN [err |-> TRUE, UserID |-> 0]
    ELSE [err |-> FALSE, UserID |-> t.uid]

\* PasetoMaker.VerifyToken: the payload, or an error.
VerifyToken(t) ==
    IF ~Decrypts(t) THEN [err |-> TRUE, UserID |-> 0]
    ELSE IF ~PayloadValid(t) THEN [err |-> TRUE, UserID |-> 0]
    ELSE [err |-> FALSE, UserID |-> t.uid]

\* --------------------------------------------------------------- the hub
\* NewHub: an empty table.
NewHub == << >>

Conn(t, u) == IF u \in DOMAIN t THEN t[u] ELSE {}

\* Faulty variant: a lone connection counts as none.
RegisterIsFirstWhenAlone(t, u) == (u \notin DOMAIN t) \/ Cardinality(t[u]) <= 1

\* Faulty variant: every Register reports a first connection.
RegisterIsFirstAlways(t, u) == TRUE

\* Hub.Register, line 30: isFirstConnection := !ok || len(userConnections) == 0
RegisterIsFirst(t, u) == (u \notin DOMAIN t) \/ Cardinality(t[u]) = 0

\* Faulty variant: the connection is added to every user's set.
RegisterStoreInAll(t, u, c, ok) ==
    [k \in DOMAIN t \cup {u} |-> IF k \in DOMAIN t THEN t[k] \cup {c} ELSE {c}]

\* Hub.Register, lines 32-36: create the user's set when the key was absent
\* at the read (ok = FALSE), then add the connection.
RegisterStore(t, u, c, ok) ==
    IF ~ok
    THEN [k \in DOMAIN t \cup {u} |-> IF k = u THEN {c} ELSE t[k]]
    ELSE [k \in DOMAIN t |-> IF k = u THEN t[k] \cup {c} ELSE t[k]]

\* Faulty variant: an emptied set takes the whole table with it.
UnregisterStoreDropsTable(t, u, c) ==
    IF u \notin DOMAIN t THEN t
    ELSE LET userConnections == t[u] \ {c}
         IN  IF Cardinality(userConnections) = 0
             THEN << >>
             ELSE [k \in DOMAIN t |-> IF k = u THEN userConnections ELSE t[k]]

\* Faulty variant: the key of an emptied set is kept.
UnregisterStoreKeepsKey(t, u, c) ==
    IF u \notin DOMAIN t THEN t
    ELSE [k \in DOMAIN t |-> IF k = u THEN t[k] \ {c} ELSE t[k]]

\* Faulty variant: the user's key is dropped whatever the set holds.
UnregisterStoreDropsUser(t, u, c) ==
    [k \in DOMAIN t \ {u} |-> t[k]]

\* Hub.Unregister, lines 47-56: the table after the call.
UnregisterStore(t, u, c) ==
    IF u \notin DOMAIN t THEN t
    ELSE LET userConnections == t[u] \ {c}
         IN  IF Cardinality(userConnections) = 0
             THEN [k \in DOMAIN t \ {u} |-> t[k]]
             ELSE [k \in DOMAIN t |-> IF k = u THEN userConnections ELSE t[k]]

\* Faulty variant: the set is measured before the connection is removed.
UnregisterIsLastBeforeDelete(t, u, c) ==
    u \in DOMAIN t /\ Cardinality(t[u]) <= 1

\* Hub.Unregister, lines 47-58: the value returned.
UnregisterIsLast(t, u, c) ==
    IF u \notin DOMAIN t THEN FALSE
    ELSE Cardinality(t[u] \ {c}) = 0

\* Hub.Broadcast, lines 86-91: the connections a write is spawned for.
BroadcastTargets(t, excludeUserID) ==
    UNION {t[u] : u \in DOMAIN t \ {excludeUserID}}

\* main.go:564-565, 593-594: UserStatusBroadcast{Type, UserID}, marshalled.
UserStatusBroadcast(type, userID) == [type |-> type, user_id |-> userID]

\* hub.go:94-104: the goroutine started for connection to, found in the set
\* of user key, by the Broadcast that handler by called; it has yet to call
\* WriteMessage.
Goroutine(by, message, key, to) ==
    [by |-> by, message |-> message, key |-> key, to |-> to, st |-> "spawned"]

\* Faulty variant: the excluded user's connections are written to as well.
BroadcastSpawnsToAll(t, by, message, excludeUserID) ==
    {Goroutine(by, message, pr[1], pr[2]) :
        pr \in UNION {{<<u, conn>> : conn \in t[u]} : u \in DOMAIN t}}

\* hub.go:86-105: the two range loops of Broadcast, one goroutine for each
\* connection of each user's set but the excluded user's.
BroadcastSpawns(t, by, message, excludeUserID) ==
    {Goroutine(by, message, pr[1], pr[2]) :
        pr \in UNION {{<<u, conn>> : conn \in t[u]} : u \in DOMAIN t \ {excludeUserID}}}

\* The payloads a handler reads in a run of OrderSpec, at most.
MaxReads == 2

\* The connections whose peers send payloads in a run of OrderSpec.
NSenders == 1

\* main.go:599, "excludeUserID 0 means no exclusion": no user has id 0.
NoExclusion == 0

\* Faulty variant: Lock waits for writers only, not for readers.
CanLockAmongReaders(m) == m.w = {}

\* Faulty variant: Lock excludes nobody.
CanLockAnyTime(m) == TRUE

\* sync.RWMutex: Lock needs no writer and no reader, RLock needs no writer.
CanLock(m) == m.w = {} /\ m.r = {}
CanRLock(m) == m.w = {}

\* ------------------------------------------------------------- the state
Event(ev, arg, res, to) == [ev |-> ev, arg |-> arg, res |-> res, to |-> to]

BoolStr(b) == IF b THEN "true" ELSE "false"

NoToken == [kind |-> "none", uid |-> 0]

InitSess ==
    [pc |-> "Idle", tok |-> NoToken, userID |-> 0, ok |-> FALSE,
     isFirstConnection |-> FALSE, isLastConnection |-> FALSE,
     err |-> "", targets |-> {}, excludeUserID |-> 0]

\* No payload in hand: the loop's locals before ReadMessage returns.
NoPayload ==
    [frame |-> "none", json |-> "", type |-> "", fields |-> "",
     recipient_id |-> 0, content |-> "", sender_id |-> 0]

NoEnvelope == [type |-> "none"]

NoWork ==
    [p |-> NoPayload, msg |-> NoEnvelope, jsonMsg |-> NoEnvelope, target |-> 0,
     recipientConnections |-> {}, pending |-> {}, steps |-> << >>, outcome |-> ""]

\* Nothing kept: the history of a read loop across its iterations, which
\* only OrderSpec keeps.
NoHist == [on |-> FALSE, steps |-> << >>]

InitHub ==
    [calls |-> 0, op |-> "none", u |-> 0, c |-> 0, ret |-> FALSE, pre |-> NewHub,
     regTrue |-> [u \in Users |-> 0], unregTrue |-> [u \in Users |-> 0]]

Init ==
    /\ clients = NewHub
    /\ mu = [w |-> {}, r |-> {}]
    /\ sess = [c \in FanoutConns |-> InitSess]
    /\ status = [u \in Users |-> "offline"]
    /\ log = [c \in FanoutConns |-> << >>]
    /\ live = [u \in Users |-> {}]
    /\ periods = [u \in Users |-> 0]
    /\ ended = [u \in Users |-> 0]
    /\ dbFailed = [u \in Users |-> FALSE]
    /\ hub = InitHub
    /\ work = [c \in FanoutConns |-> NoWork]
    /\ writes = {}
    /\ hist = [c \in FanoutConns |-> NoHist]

Goto(c, label) == [sess EXCEPT ![c].pc = label]
Logged(c, e) == [log EXCEPT ![c] = Append(@, e)]

Opened(t, t2, u) == IF u \notin DOMAIN t /\ u \in DOMAIN t2 THEN 1 ELSE 0
Closed(t, t2, u) == IF u \in DOMAIN t /\ u \notin DOMAIN t2 THEN 1 ELSE 0

\* ------------------------------------------------- the /ws handler, Spec
\* main.go:522-527: the upgrade fails (the handler returns, there is no
\* connection) or succeeds (conn.Close is deferred). The request's token is
\* the client's choice.
Upgrade(c) ==
    /\ sess[c].pc = "Idle"
    /\ \/ /\ sess' = Goto(c, "Done")
          /\ log' = Logged(c, Event("UpgradeError", "", "", {}))
       \/ \E t \in Tokens :
            /\ sess' = [sess EXCEPT ![c].pc = "Auth", ![c].tok = t]
            /\ log' = log
    /\ UNCHANGED <<clients, mu, status, live, periods, ended, dbFailed, hub, work, writes, hist>>

\* main.go:530-546: an absent token, or one VerifyToken rejects, gets a
\* policy-violation close frame and the handler returns; otherwise the
\* payload's user id is the session's identity.
Authenticate(c) ==
    /\ sess[c].pc = "Auth"
    /\ LET t == sess[c].tok
           payload == VerifyToken(t)
       IN  IF t.kind = "missing" \/ payload.err
           THEN /\ sess' = Goto(c, "Close")
                /\ log' = Logged(c, Event("CloseFrame", "ClosePolicyViolation", "", {}))
           ELSE /\ sess' = [sess EXCEPT ![c].pc = "Register", ![c].userID = payload.UserID]
                /\ log' = log
    /\ UNCHANGED <<clients, mu, status, live, periods, ended, dbFailed, hub, work, writes, hist>>

\* hub.go:25-30 in the call of main.go:549: Lock, then read the user's entry.
RegisterLock(c) ==
    /\ sess[c].pc = "Register"
    /\ CanLock(mu)
    /\ mu' = [mu EXCEPT !.w = @ \cup {c}]
    /\ sess' = [sess EXCEPT ![c].pc = "RegisterStore",
                            ![c].ok = sess[c].userID \in DOMAIN clients,
                            ![c].isFirstConnection = RegisterIsFirst(clients, sess[c].userID)]
    /\ UNCHANGED <<clients, status, log, live, periods, ended, dbFailed, hub, work, writes, hist>>

\* Faulty variant: a first connection goes to its broadcast without the
\* status update.
AfterRegisterBroadcastsFirst(isFirstConnection) ==
    IF isFirstConnection THEN "BroadcastOnline" ELSE "ReadLoop"

\* Faulty variant: the online mark is requested on every connection.
AfterRegisterAlwaysOnline(isFirstConnection) == "Online"

\* main.go:552, 575: the branch taken on Register's result.
AfterRegister(isFirstConnection) ==
    IF isFirstConnection THEN "Online" ELSE "ReadLoop"

\* hub.go:32-37: store the connection, Unlock (deferred), return.
RegisterReturn(c) ==
    /\ sess[c].pc = "RegisterStore"
    /\ LET u == sess[c].userID
           t2 == RegisterStore(clients, u, c, sess[c].ok)
       IN  /\ clients' = t2
           /\ live' = [live EXCEPT ![u] = @ \cup {c}]
           /\ periods' = [periods EXCEPT ![u] = @ + Opened(clients, t2, u)]
    /\ mu' = [mu EXCEPT !.w = @ \ {c}]
    /\ sess' = Goto(c, AfterRegister(sess[c].isFirstConnection))
    /\ log' = Logged(c, Event("Register", BoolStr(sess[c].isFirstConnection), "", {}))
    /\ UNCHANGED <<status, ended, dbFailed, hub, work, writes, hist>>

\* Faulty variant: the handler returns on a failed online status update,
\* before its cleanup is deferred.
OnlineFailureReturns == "Close"

\* main.go:557-560: a failed status update is logged and the handler goes
\* on to defer its cleanup and to read.
OnlineFailure == "ReadLoop"

\* main.go:553-561: UpdateUserStatus(userID, "online"), which the store may
\* reject.
MarkOnline(c) ==
    /\ sess[c].pc = "Online"
    /\ LET u == sess[c].userID
       IN  \/ /\ status' = [status EXCEPT ![u] = "online"]
              /\ dbFailed' = dbFailed
              /\ sess' = Goto(c, "BroadcastOnline")
              /\ log' = Logged(c, Event("UpdateUserStatus", "online", "ok", {}))
           \/ /\ status' = status
              /\ dbFailed' = [dbFailed EXCEPT ![u] = TRUE]
              /\ sess' = Goto(c, OnlineFailure)
              /\ log' = Logged(c, Event("UpdateUserStatus", "online", "err", {}))
    /\ UNCHANGED <<clients, mu, live, periods, ended, hub, work, writes, hist>>

\* hub.go:83-106 in the calls of main.go:570 and 599: RLock, spawn one write
\* per connection of every user but the excluded one.
BroadcastRLock(c, at, next, type, excludeUserID) ==
    /\ sess[c].pc = at
    /\ CanRLock(mu)
    /\ mu' = [mu EXCEPT !.r = @ \cup {c}]
    /\ sess' = [sess EXCEPT ![c].pc = next,
                            ![c].targets = BroadcastTargets(clients, excludeUserID),
                            ![c].excludeUserID = excludeUserID]
    /\ writes' = writes \cup BroadcastSpawns(clients, c,
                                  UserStatusBroadcast(type, sess[c].userID), excludeUserID)
    /\ log' = Logged(c, Event("Broadcast", type, "", {}))
    /\ UNCHANGED <<clients, status, live, periods, ended, dbFailed, hub, work, hist>>

\* Faulty variant: Broadcast waits for its writes before it returns.
BroadcastReturnWaits(c, at, next) ==
    /\ sess[c].pc = at
    /\ \A g \in writes : g.by = c => g.st \in {"ok", "err"}
    /\ mu' = [mu EXCEPT !.r = @ \ {c}]
    /\ sess' = [sess EXCEPT ![c].pc = next, ![c].targets = {},
                            ![c].excludeUserID = 0]
    /\ UNCHANGED <<clients, status, log, live, periods, ended, dbFailed, hub, work, writes, hist>>

\* Faulty variant: Broadcast returns without RUnlock.
BroadcastReturnKeepsRLock(c, at, next) ==
    /\ sess[c].pc = at
    /\ sess' = [sess EXCEPT ![c].pc = next, ![c].targets = {},
                            ![c].excludeUserID = 0]
    /\ UNCHANGED <<clients, mu, status, log, live, periods, ended, dbFailed, hub, work, writes, hist>>

\* hub.go:84: RUnlock (deferred), return.
BroadcastReturn(c, at, next) ==
    /\ sess[c].pc = at
    /\ mu' = [mu EXCEPT !.r = @ \ {c}]
    /\ sess' = [sess EXCEPT ![c].pc = next, ![c].targets = {},
                            ![c].excludeUserID = 0]
    /\ UNCHANGED <<clients, status, log, live, periods, ended, dbFailed, hub, work, writes, hist>>

\* main.go:564-571
BroadcastOnline(c) ==
    BroadcastRLock(c, "BroadcastOnline", "BroadcastOnlineReturn", "user_online", sess[c].userID)

BroadcastOnlineReturn(c) ==
    BroadcastReturn(c, "BroadcastOnlineReturn", "ReadLoop")

\* main.go:611-619: ReadMessage returns an error (the peer closed, or the
\* transport failed); the cause only selects the log line. The loop breaks
\* and the deferred cleanup starts.
ReadError(c) ==
    /\ sess[c].pc = "ReadLoop"
    /\ \E cause \in {"normal", "unexpected"} :
         sess' = [sess EXCEPT ![c].pc = "Unregister", ![c].err = cause]
    /\ UNCHANGED <<clients, mu, status, log, live, periods, ended, dbFailed, hub, work, writes, hist>>

\* hub.go:43-50 in the call of main.go:581: Lock, then read the user's entry.
UnregisterLock(c) ==
    /\ sess[c].pc = "Unregister"
    /\ CanLock(mu)
    /\ mu' = [mu EXCEPT !.w = @ \cup {c}]
    /\ sess' = [sess EXCEPT ![c].pc = "UnregisterStore", ![c].err = "",
                            ![c].ok = sess[c].userID \in DOMAIN clients]
    /\ UNCHANGED <<clients, status, log, live, periods, ended, dbFailed, hub, work, writes, hist>>

\* Faulty variant: a last connection goes to its broadcast without the
\* status update.
AfterUnregisterBroadcastsFirst(isLastConnection) ==
    IF isLastConnection THEN "BroadcastOffline" ELSE "Close"

\* main.go:582, 604: the branch taken on Unregister's result.
AfterUnregister(isLastConnection) ==
    IF isLastConnection THEN "Offline" ELSE "Close"

\* hub.go:47-58: remove the connection, drop the key of an emptied set,
\* Unlock (deferred), return.
UnregisterReturn(c) ==
    /\ sess[c].pc = "UnregisterStore"
    /\ LET u == sess[c].userID
           t2 == UnregisterStore(clients, u, c)
           isLastConnection == UnregisterIsLast(clients, u, c)
       IN  /\ clients' = t2
           /\ live' = [live EXCEPT ![u] = @ \ {c}]
           /\ ended' = [ended EXCEPT ![u] = @ + Closed(clients, t2, u)]
           /\ sess' = [sess EXCEPT ![c].pc = AfterUnregister(isLastConnection),
                                   ![c].isLastConnection = isLastConnection]
           /\ log' = Logged(c, Event("Unregister", BoolStr(isLastConnection), "", {}))
    /\ mu' = [mu EXCEPT !.w = @ \ {c}]
    /\ UNCHANGED <<status, periods, dbFailed, hub, work, writes, hist>>

\* main.go:583-590: UpdateUserStatus(userID, "offline"), which the store may
\* reject; the broadcast is in the success branch.
MarkOffline(c) ==
    /\ sess[c].pc = "Offline"
    /\ LET u == sess[c].userID
       IN  \/ /\ status' = [status EXCEPT ![u] = "offline"]
              /\ dbFailed' = dbFailed
              /\ sess' = Goto(c, "BroadcastOffline")
              /\ log' = Logged(c, Event("UpdateUserStatus", "offline", "ok", {}))
           \/ /\ status' = status
              /\ dbFailed' = [dbFailed EXCEPT ![u] = TRUE]
              /\ sess' = Goto(c, "Close")
              /\ log' = Logged(c, Event("UpdateUserStatus", "offline", "err", {}))
    /\ UNCHANGED <<clients, mu, live, periods, ended, hub, work, writes, hist>>

\* main.go:593-600
BroadcastOffline(c) ==
    BroadcastRLock(c, "BroadcastOffline", "BroadcastOfflineReturn", "user_offline", NoExclusion)

BroadcastOfflineReturn(c) ==
    BroadcastReturn(c, "BroadcastOfflineReturn", "Close")

\* main.go:527: the deferred conn.Close, last thing the handler does.
Close(c) ==
    /\ sess[c].pc = "Close"
    /\ sess' = [sess EXCEPT ![c].pc = "Done", ![c].ok = FALSE,
                            ![c].isFirstConnection = FALSE,
                            ![c].isLastConnection = FALSE]
    /\ log' = Logged(c, Event("Close", "", "", {}))
    /\ UNCHANGED <<clients, mu, status, live, periods, ended, dbFailed, hub, work, writes, hist>>

\* The steps of handler c that need no input from its peer.
Run(c) ==
    \/ Authenticate(c)
    \/ RegisterLock(c)
    \/ RegisterReturn(c)
    \/ MarkOnline(c)
    \/ BroadcastOnline(c)
    \/ BroadcastOnlineReturn(c)
    \/ UnregisterLock(c)
    \/ UnregisterReturn(c)
    \/ MarkOffline(c)
    \/ BroadcastOffline(c)
    \/ BroadcastOfflineReturn(c)
    \/ Close(c)

Next ==
    \E c \in Conns :
        \/ Upgrade(c)
        \/ Authenticate(c)
        \/ RegisterLock(c)
        \/ RegisterReturn(c)
        \/ MarkOnline(c)
        \/ BroadcastOnline(c)
        \/ BroadcastOnlineReturn(c)
        \/ ReadError(c)
        \/ UnregisterLock(c)
        \/ UnregisterReturn(c)
        \/ MarkOffline(c)
        \/ BroadcastOffline(c)
        \/ BroadcastOfflineReturn(c)
        \/ Close(c)

Spec == Init /\ [][Next]_vars

FairSpec == Spec /\ \A c \in Conns : WF_vars(Run(c))

\* ------------------------------------------------ the hub alone, HubSpec
\* One call of Hub.Register(u, c), start to end, by a caller that holds no
\* lock: what it returns, and the table it leaves.
HubRegister(u, c) ==
    /\ hub.calls < MaxCalls
    /\ LET ret == RegisterIsFirst(clients, u)
           t2 == RegisterStore(clients, u, c, u \in DOMAIN clients)
       IN  /\ clients' = t2
           /\ live' = [live EXCEPT ![u] = @ \cup {c}]
           /\ periods' = [periods EXCEPT ![u] = @ + Opened(clients, t2, u)]
           /\ hub' = [hub EXCEPT !.calls = @ + 1, !.op = "Register", !.u = u, !.c = c,
                                 !.ret = ret, !.pre = clients,
                                 !.regTrue[u] = @ + (IF ret THEN 1 ELSE 0)]
    /\ UNCHANGED <<mu, sess, status, log, ended, dbFailed, work, writes, hist>>

\* One call of Hub.Unregister(u, c), start to end.
HubUnregister(u, c) ==
    /\ hub.calls < MaxCalls
    /\ LET ret == UnregisterIsLast(clients, u, c)
           t2 == UnregisterStore(clients, u, c)
       IN  /\ clients' = t2
           /\ live' = [live EXCEPT ![u] = @ \ {c}]
           /\ ended' = [ended EXCEPT ![u] = @ + Closed(clients, t2, u)]
           /\ hub' = [hub EXCEPT !.calls = @ + 1, !.op = "Unregister", !.u = u, !.c = c,
                                 !.ret = ret, !.pre = clients,
                                 !.unregTrue[u] = @ + (IF ret THEN 1 ELSE 0)]
    /\ UNCHANGED <<mu, sess, status, log, periods, dbFailed, work, writes, hist>>

HubNext ==
    \E u \in Users, c \in Conns :
        \/ HubRegister(u, c)
        \/ HubUnregister(u, c)

HubSpec == Init /\ [][HubNext]_vars

\* ------------------------------------------- the read loop, RouterSpec
\* What a peer can send: a frame, its JSON, its "type", whether the fields
\* fit the struct of that type, and the fields the handler reads. sender_id
\* is whatever the client chose to put there.
Payload(frame, json, type, fields, r, content, s) ==
    [frame |-> frame, json |-> json, type |-> type, fields |-> fields,
     recipient_id |-> r, content |-> content, sender_id |-> s]

\* An id field: negative, 0 (also what an absent field decodes to), or a user.
Ids == -1..NUsers
Contents == {"", "hi"}

Payloads ==
    {Payload("binary", "", "", "", 0, "", 0),
     Payload("text", "bad", "", "", 0, "", 0),
     Payload("text", "ok", "", "ok", 0, "", 0),
     Payload("text", "ok", "offer", "ok", 0, "", 0)}
    \cup {Payload("text", "ok", t, "bad", 0, "", 0) :
            t \in {"private_message", "typing_start", "typing_stop", "message_read"}}
    \cup {Payload("text", "ok", "private_message", "ok", r, x, i) :
            r \in Ids, x \in Contents, i \in Ids}
    \cup {Payload("text", "ok", t, "ok", r, "", i) :
            t \in {"typing_start", "typing_stop"}, r \in Ids, i \in Ids}
    \cup {Payload("text", "ok", "message_read", "ok", 0, "", i) : i \in Ids}

\* main.go:546: username := payload.Username, the name the token was issued
\* to.
UsernameOf(u) == <<"user", u>>

\* main.go:641-645, json.Unmarshal into IncomingWsMessage (main.go:288-292):
\* the struct has no sender field.
DecodeIncoming(p) ==
    [Type |-> p.type, RecipientID |-> p.recipient_id, Content |-> p.content]

\* main.go:687-691, json.Unmarshal into TypingIndicatorMessage (317-321).
DecodeTyping(p) ==
    [Type |-> p.type, RecipientID |-> p.recipient_id, SenderID |-> p.sender_id]

\* main.go:716-720, json.Unmarshal into MessageReadMessage (324-327).
DecodeRead(p) == [Type |-> p.type, SenderID |-> p.sender_id]

\* Faulty variant: the validation accepts every private message.
InvalidPrivateMessageAcceptsAll(msg) == FALSE

\* Faulty variant: the validation does not look at the content.
InvalidPrivateMessageIgnoresContent(msg) == msg.RecipientID <= 0

\* main.go:647: the validation of a private message.
InvalidPrivateMessage(msg) == msg.RecipientID <= 0 \/ msg.Content = ""

\* Faulty variant: only recipient 0 is rejected.
InvalidTypingZeroOnly(msg) == msg.RecipientID = 0

\* main.go:693: the validation of a typing indicator.
InvalidTyping(msg) == msg.RecipientID <= 0

\* main.go:722: the validation of a read notice.
InvalidRead(msg) == msg.SenderID <= 0

\* main.go:621-750: what the loop does with a payload, up to the first call
\* it makes for it: the discard that ends the iteration, or the case taken.
Dispatch(p) ==
    IF p.frame # "text" THEN "non-text"
    ELSE IF p.json # "ok" THEN "unmarshal-error"
    ELSE IF p.type = "" THEN "no-type"
    ELSE IF p.type = "private_message"
         THEN IF p.fields # "ok" THEN "unmarshal-error"
              ELSE IF InvalidPrivateMessage(DecodeIncoming(p)) THEN "invalid"
              ELSE "private_message"
    ELSE IF p.type \in {"typing_start", "typing_stop"}
         THEN IF p.fields # "ok" THEN "unmarshal-error"
              ELSE IF InvalidTyping(DecodeTyping(p)) THEN "invalid"
              ELSE "typing"
    ELSE IF p.type = "message_read"
         THEN IF p.fields # "ok" THEN "unmarshal-error"
              ELSE IF InvalidRead(DecodeRead(p)) THEN "invalid"
              ELSE "message_read"
    ELSE "unhandled"

Discards == {"non-text", "unmarshal-error", "no-type", "invalid", "unhandled"}

\* Faulty variant: sender and receiver change places.
CreateMessageParamsSwapped(userID, msg) ==
    [SenderID |-> msg.RecipientID, ReceiverID |-> userID, Content |-> msg.Content]

\* main.go:652-656: the parameters of CreateMessage.
CreateMessageParams(userID, msg) ==
    [SenderID |-> userID, ReceiverID |-> msg.RecipientID, Content |-> msg.Content]

\* main.go:665-671: the envelope of a private message, marshalled.
OutgoingWsMessage(userID, msg) ==
    [type |-> "incoming_message", sender_id |-> userID,
     sender_username |-> UsernameOf(userID), content |-> msg.Content]

\* Faulty variant: the decoded sender_id is forwarded as it came.
TypingIndicatorMessageAsSent(userID, msg) ==
    [type |-> msg.Type, recipient_id |-> msg.RecipientID, sender_id |-> msg.SenderID]

\* main.go:698-700: the typing indicator stamped with the session's user,
\* marshalled.
TypingIndicatorMessage(userID, msg) ==
    [type |-> msg.Type, recipient_id |-> msg.RecipientID, sender_id |-> userID]

\* Faulty variant: reader and sender change places.
ReadReceiptUpdateMessageSwapped(userID, msg) ==
    [type |-> "read_receipt_update", reader_id |-> msg.SenderID, sender_id |-> userID]

\* main.go:727-733: the read receipt, marshalled.
ReadReceiptUpdateMessage(userID, msg) ==
    [type |-> "read_receipt_update", reader_id |-> userID, sender_id |-> msg.SenderID]

\* Faulty variant: the lookup returns the connections of the other users.
GetUserConnectionsOfOthers(t, u) == UNION {t[v] : v \in DOMAIN t \ {u}}

\* Faulty variant: the lookup returns an empty slice for every user.
GetUserConnectionsOfNone(t, u) == {}

\* Faulty variant: the lookup returns every registered connection.
GetUserConnectionsOfAll(t, u) == UNION {t[v] : v \in DOMAIN t}

\* hub.go:63-78: a copy of the user's connections, empty without a key.
GetUserConnections(t, u) == IF u \in DOMAIN t THEN t[u] ELSE {}

Step(op, to, arg, res) == [op |-> op, to |-> to, arg |-> arg, res |-> res]

Did(c, st) == [work EXCEPT ![c].steps = Append(@, st)]

\* History: call st, made by handler c for payload p with the slice conns in
\* hand, or made on connection c by a goroutine of Broadcast, is added to
\* what hist keeps of c.
Kept(c, st, p, conns) ==
    IF hist[c].on
    THEN [hist EXCEPT ![c].steps =
            Append(@, [op |-> st.op, to |-> st.to, arg |-> st.arg, res |-> st.res,
                       p |-> p, conns |-> conns])]
    ELSE hist

\* main.go:611-750: ReadMessage returns a payload; the loop decodes it,
\* picks the case and validates, all on its own locals.
ReadMessage(c) ==
    /\ sess[c].pc = "ReadLoop"
    /\ \E p \in Payloads :
         LET d == Dispatch(p)
             userID == sess[c].userID
         IN  /\ hist' = Kept(c, Step("ReadMessage", 0, p, ""), p, {})
             /\ CASE d = "private_message" ->
                    /\ sess' = Goto(c, "CreateMessage")
                    /\ work' = [work EXCEPT ![c] =
                                  [NoWork EXCEPT !.p = p, !.msg = DecodeIncoming(p),
                                                 !.target = DecodeIncoming(p).RecipientID]]
               [] d = "typing" ->
                    /\ sess' = Goto(c, "GetUserConnections")
                    /\ work' = [work EXCEPT ![c] =
                                  [NoWork EXCEPT !.p = p, !.msg = DecodeTyping(p),
                                                 !.jsonMsg = TypingIndicatorMessage(userID, DecodeTyping(p)),
                                                 !.target = DecodeTyping(p).RecipientID]]
               [] d = "message_read" ->
                    /\ sess' = Goto(c, "GetUserConnections")
                    /\ work' = [work EXCEPT ![c] =
                                  [NoWork EXCEPT !.p = p, !.msg = DecodeRead(p),
                                                 !.jsonMsg = ReadReceiptUpdateMessage(userID, DecodeRead(p)),
                                                 !.target = DecodeRead(p).SenderID]]
               [] OTHER ->
                    /\ sess' = Goto(c, "EndIteration")
                    /\ work' = [work EXCEPT ![c] = [NoWork EXCEPT !.p = p, !.outcome = d]]
    /\ UNCHANGED <<clients, mu, status, log, live, periods, ended, dbFailed, hub, writes>>

\* Faulty variant: a failed CreateMessage breaks out of the loop.
PersistFailureLeaves == "Unregister"

\* Faulty variant: a failed CreateMessage goes on to the delivery.
PersistFailureDelivers == "GetUserConnections"

\* main.go:657-660: a failed CreateMessage is logged and the loop continues.
PersistFailure == "EndIteration"

\* main.go:652-661: CreateMessage, which the store may reject.
CreateMessage(c) ==
    /\ sess[c].pc = "CreateMessage"
    /\ LET params == CreateMessageParams(sess[c].userID, work[c].msg)
       IN  \/ /\ sess' = Goto(c, "GetUserConnections")
              /\ work' = Did(c, Step("CreateMessage", 0, params, "ok"))
              /\ hist' = Kept(c, Step("CreateMessage", 0, params, "ok"), work[c].p, {})
           \/ /\ sess' = Goto(c, PersistFailure)
              /\ work' = [Did(c, Step("CreateMessage", 0, params, "err"))
                            EXCEPT ![c].outcome = "store-error"]
              /\ hist' = Kept(c, Step("CreateMessage", 0, params, "err"), work[c].p, {})
    /\ UNCHANGED <<clients, mu, status, log, live, periods, ended, dbFailed, hub, writes>>

\* hub.go:64-77 in the calls of main.go:663, 706, 739: RLock, then copy the
\* user's set into a fresh slice.
Lookup(c) ==
    /\ sess[c].pc = "GetUserConnections"
    /\ CanRLock(mu)
    /\ mu' = [mu EXCEPT !.r = @ \cup {c}]
    /\ LET conns == GetUserConnections(clients, work[c].target)
           w == [Did(c, Step("GetUserConnections", 0, [userID |-> work[c].target], ""))[c]
                   EXCEPT !.recipientConnections = conns, !.pending = conns]
       IN  /\ work' = [work EXCEPT ![c] = w]
           /\ hist' = Kept(c, Step("GetUserConnections", 0, [userID |-> work[c].target], ""),
                           work[c].p, conns)
    /\ sess' = Goto(c, "GetUserConnectionsReturn")
    /\ UNCHANGED <<clients, status, log, live, periods, ended, dbFailed, hub, writes>>

\* Faulty variant: GetUserConnections returns without RUnlock.
LookupReturnKeepsRLock(c) ==
    /\ sess[c].pc = "GetUserConnectionsReturn"
    /\ LET w == work[c]
       IN  IF w.recipientConnections = {}
           THEN /\ sess' = Goto(c, "EndIteration")
                /\ work' = [work EXCEPT ![c] = [w EXCEPT !.outcome = "offline"]]
           ELSE /\ sess' = Goto(c, "Deliver")
                /\ work' = [work EXCEPT ![c] =
                              IF w.p.type = "private_message"
                              THEN [w EXCEPT !.jsonMsg = OutgoingWsMessage(sess[c].userID, w.msg)]
                              ELSE w]
    /\ UNCHANGED <<clients, mu, status, log, live, periods, ended, dbFailed, hub, writes, hist>>

\* hub.go:65 and main.go:664-676, 682-684: RUnlock (deferred), return; a
\* private message gets its envelope only when the copy is not empty.
LookupReturn(c) ==
    /\ sess[c].pc = "GetUserConnectionsReturn"
    /\ mu' = [mu EXCEPT !.r = @ \ {c}]
    /\ LET w == work[c]
       IN  IF w.recipientConnections = {}
           THEN /\ sess' = Goto(c, "EndIteration")
                /\ work' = [work EXCEPT ![c] = [w EXCEPT !.outcome = "offline"]]
           ELSE /\ sess' = Goto(c, "Deliver")
                /\ work' = [work EXCEPT ![c] =
                              IF w.p.type = "private_message"
                              THEN [w EXCEPT !.jsonMsg = OutgoingWsMessage(sess[c].userID, w.msg)]
                              ELSE w]
    /\ UNCHANGED <<clients, status, log, live, periods, ended, dbFailed, hub, writes, hist>>

\* gorilla's WriteMessage on connection to: an error once the connection's
\* own handler has closed it (main.go:527), else success or an error of the
\* transport.
WriteResults(to) == IF sess[to].pc = "Done" THEN {"err"} ELSE {"ok", "err"}

\* Faulty variant: a write error ends the range loop.
AfterWriteStopsOnError(res, rest) == IF res = "err" THEN {} ELSE rest

\* main.go:677-681, 708-712, 741-745: a write error is logged and the range
\* loop goes on with the connections left.
AfterWrite(res, rest) == rest

\* main.go:677-681, 708-712, 741-745: one WriteMessage of the range loop over
\* the copy, in the order the copy happens to have.
WriteMessage(c) ==
    /\ sess[c].pc = "Deliver"
    /\ \E to \in work[c].pending : \E res \in WriteResults(to) :
         LET rest == AfterWrite(res, work[c].pending \ {to})
         IN  /\ work' = [Did(c, Step("WriteMessage", to, work[c].jsonMsg, res))
                           EXCEPT ![c].pending = rest,
                                  ![c].outcome = IF rest = {} THEN "delivered" ELSE @]
             /\ sess' = Goto(c, IF rest = {} THEN "EndIteration" ELSE "Deliver")
             /\ hist' = Kept(c, Step("WriteMessage", to, work[c].jsonMsg, res),
                             work[c].p, work[c].recipientConnections)
    /\ UNCHANGED <<clients, mu, status, log, live, periods, ended, dbFailed, hub, writes>>

\* Faulty variant: the loop reads the next payload while writes of this one
\* are still to be made.
LoopBackEarly(c) ==
    /\ sess[c].pc \in {"Deliver", "EndIteration"}
    /\ sess' = Goto(c, "ReadLoop")
    /\ work' = [work EXCEPT ![c] = NoWork]
    /\ UNCHANGED <<clients, mu, status, log, live, periods, ended, dbFailed, hub, writes, hist>>

\* Faulty variant: the end of an iteration leaves the loop.
LoopBackLeaves(c) ==
    /\ sess[c].pc = "EndIteration"
    /\ sess' = Goto(c, "Unregister")
    /\ work' = [work EXCEPT ![c] = NoWork]
    /\ UNCHANGED <<clients, mu, status, log, live, periods, ended, dbFailed, hub, writes, hist>>

\* main.go:610: the end of an iteration (a continue, or the end of the
\* body): the locals of the iteration are gone and the loop reads again.
LoopBack(c) ==
    /\ sess[c].pc = "EndIteration"
    /\ sess' = Goto(c, "ReadLoop")
    /\ work' = [work EXCEPT ![c] = NoWork]
    /\ UNCHANGED <<clients, mu, status, log, live, periods, ended, dbFailed, hub, writes, hist>>

RouterNext ==
    \E c \in Conns :
        \/ Upgrade(c)
        \/ Authenticate(c)
        \/ RegisterLock(c)
        \/ RegisterReturn(c)
        \/ MarkOnline(c)
        \/ BroadcastOnline(c)
        \/ BroadcastOnlineReturn(c)
        \/ ReadMessage(c)
        \/ CreateMessage(c)
        \/ Lookup(c)
        \/ LookupReturn(c)
        \/ WriteMessage(c)
        \/ LoopBack(c)
        \/ ReadError(c)
        \/ UnregisterLock(c)
        \/ UnregisterReturn(c)
        \/ MarkOffline(c)
        \/ BroadcastOffline(c)
        \/ BroadcastOfflineReturn(c)
        \/ Close(c)

RouterSpec == Init /\ [][RouterNext]_vars

\* ------------------------------------- Broadcast's goroutines, FanoutSpec
\* Goroutine g with its st field set.
At(g, st) == [g EXCEPT !.st = st]

\* Every goroutine a Broadcast of the model can start, at every point of its
\* life.
Goroutines ==
    [by : FanoutConns,
     message : [type : {"user_online", "user_offline"}, user_id : {0} \cup Users],
     key : Users, to : FanoutConns, st : {"spawned", "writing", "ok", "err"}]

\* hub.go:99: goroutine g is scheduled and calls WriteMessage on its
\* connection; nothing orders it against any other write.
GoWriteMessage(g) ==
    /\ g \in writes
    /\ g.st = "spawned"
    /\ writes' = (writes \ {g}) \cup {At(g, "writing")}
    /\ UNCHANGED <<clients, mu, sess, status, log, live, periods, ended, dbFailed, hub, work, hist>>

\* Faulty variant: a goroutine whose write failed takes the connection out
\* of the table.
GoWriteReturnUnregisters(g) ==
    /\ g \in writes
    /\ g.st = "writing"
    /\ \E res \in WriteResults(g.to) :
         /\ writes' = (writes \ {g}) \cup {At(g, res)}
         /\ clients' = IF res = "err" THEN UnregisterStore(clients, g.key, g.to)
                                      ELSE clients
         /\ live' = IF res = "err" THEN [live EXCEPT ![g.key] = @ \ {g.to}] ELSE live
         /\ hist' = Kept(g.to, Step("WriteMessage", g.to, g.message, res), NoPayload, {})
    /\ UNCHANGED <<mu, sess, status, log, periods, ended, dbFailed, hub, work>>

\* hub.go:99-104: the WriteMessage of goroutine g returns, an error is only
\* logged, and the goroutine ends. A write that stalls never takes this step.
GoWriteReturn(g) ==
    /\ g \in writes
    /\ g.st = "writing"
    /\ \E res \in WriteResults(g.to) :
         /\ writes' = (writes \ {g}) \cup {At(g, res)}
         /\ hist' = Kept(g.to, Step("WriteMessage", g.to, g.message, res), NoPayload, {})
    /\ UNCHANGED <<clients, mu, sess, status, log, live, periods, ended, dbFailed, hub, work>>

FanoutNext ==
    \/ \E c \in Conns :
        \/ Upgrade(c)
        \/ Authenticate(c)
        \/ RegisterLock(c)
        \/ RegisterReturn(c)
        \/ MarkOnline(c)
        \/ BroadcastOnline(c)
        \/ BroadcastOnlineReturn(c)
        \/ ReadError(c)
        \/ UnregisterLock(c)
        \/ UnregisterReturn(c)
        \/ MarkOffline(c)
        \/ BroadcastOffline(c)
        \/ BroadcastOfflineReturn(c)
        \/ Close(c)
    \/ \E g \in Goroutines :
        \/ GoWriteMessage(g)
        \/ GoWriteReturn(g)

FanoutSpec == Init /\ [][FanoutNext]_vars

\* ------------------------------------------- Broadcast alone, BroadcastSpec
\* main.go:549: Register is called with the handler's own connection and the
\* user of its token, so no connection is in the sets of two users.
OneUserPerConn(u, c) == \A v \in DOMAIN clients \ {u} : c \notin clients[v]

\* A call of Hub.Register by a caller that has to take the lock.
LockedRegister(u, c) == CanLock(mu) /\ OneUserPerConn(u, c) /\ HubRegister(u, c)

\* A call of Hub.Unregister by a caller that has to take the lock.
LockedUnregister(u, c) == CanLock(mu) /\ HubUnregister(u, c)

\* What Broadcast is called with: main.go:570 excludes a user, main.go:599
\* passes 0.
Exclusions == Users \cup {NoExclusion}

\* hub.go:82-105: caller k calls Broadcast, the one call of the run; the call
\* takes the read lock and starts its goroutines.
HubBroadcast(k, type, excludeUserID) ==
    /\ \A j \in Conns : log[j] = << >>
    /\ BroadcastRLock(k, "Idle", "Broadcast", type, excludeUserID)

\* hub.go:84, 107: the call returns.
HubBroadcastReturn(k) == BroadcastReturn(k, "Broadcast", "Idle")

BroadcastNext ==
    \/ \E u \in Users, c \in FanoutConns :
        \/ LockedRegister(u, c)
        \/ LockedUnregister(u, c)
    \/ \E k \in Conns :
        \/ \E excludeUserID \in Exclusions : HubBroadcast(k, "user_offline", excludeUserID)
        \/ HubBroadcastReturn(k)
    \/ \E g \in Goroutines :
        \/ GoWriteMessage(g)
        \/ GoWriteReturn(g)

BroadcastSpec == Init /\ [][BroadcastNext]_vars

\* ------------------- the read loop with Broadcast's goroutines, DeliverySpec
\* The payloads that reach a delivery: well formed, of the three kinds the
\* loop forwards, addressed to a user.
Deliverable ==
    {Payload("text", "ok", "private_message", "ok", r, "hi", 0) : r \in Users}
    \cup {Payload("text", "ok", "typing_start", "ok", r, "", 0) : r \in Users}
    \cup {Payload("text", "ok", "message_read", "ok", 0, "", i) : i \in Users}

\* main.go:612 with a peer that sends deliverable payloads only.
ReadDeliverable(c) == ReadMessage(c) /\ work'[c].p \in Deliverable

DeliveryNext ==
    \/ \E c \in Conns :
        \/ Upgrade(c)
        \/ Authenticate(c)
        \/ RegisterLock(c)
        \/ RegisterReturn(c)
        \/ MarkOnline(c)
        \/ BroadcastOnline(c)
        \/ BroadcastOnlineReturn(c)
        \/ ReadDeliverable(c)
        \/ CreateMessage(c)
        \/ Lookup(c)
        \/ LookupReturn(c)
        \/ WriteMessage(c)
        \/ LoopBack(c)
        \/ ReadError(c)
        \/ UnregisterLock(c)
        \/ UnregisterReturn(c)
        \/ MarkOffline(c)
        \/ BroadcastOffline(c)
        \/ BroadcastOfflineReturn(c)
        \/ Close(c)
    \/ \E g \in Goroutines :
        \/ GoWriteMessage(g)
        \/ GoWriteReturn(g)

DeliverySpec == Init /\ [][DeliveryNext]_vars

\* ------------------------ the read loop over several payloads, OrderSpec
\* The connections whose peers send payloads, and whose handlers keep the
\* history of their read loops; the peers of the others only listen.
Senders == 1..NSenders

OrderInit ==
    /\ clients = NewHub
    /\ mu = [w |-> {}, r |-> {}]
    /\ sess = [c \in FanoutConns |-> InitSess]
    /\ status = [u \in Users |-> "offline"]
    /\ log = [c \in FanoutConns |-> << >>]
    /\ live = [u \in Users |-> {}]
    /\ periods = [u \in Users |-> 0]
    /\ ended = [u \in Users |-> 0]
    /\ dbFailed = [u \in Users |-> FALSE]
    /\ hub = InitHub
    /\ work = [c \in FanoutConns |-> NoWork]
    /\ writes = {}
    /\ hist = [c \in FanoutConns |-> [NoHist EXCEPT !.on = c \in Senders]]

\* The payloads handler c has read so far.
Reads(c) == {i \in 1..Len(hist[c].steps) : hist[c].steps[i].op = "ReadMessage"}

\* The peers send valid private messages; two to the same recipient differ
\* in the sender_id their payload claims.
PrivateMessages ==
    {Payload("text", "ok", "private_message", "ok", r, "hi", i) : r \in Users, i \in Users}

\* main.go:612: one more payload arrives on connection c, of at most
\* MaxReads.
ReadPrivateMessage(c) ==
    /\ hist[c].on
    /\ Cardinality(Reads(c)) < MaxReads
    /\ ReadMessage(c)
    /\ work'[c].p \in PrivateMessages

OrderNext ==
    \E c \in Conns :
        \/ Upgrade(c)
        \/ Authenticate(c)
        \/ RegisterLock(c)
        \/ RegisterReturn(c)
        \/ MarkOnline(c)
        \/ BroadcastOnline(c)
        \/ BroadcastOnlineReturn(c)
        \/ ReadPrivateMessage(c)
        \/ CreateMessage(c)
        \/ Lookup(c)
        \/ LookupReturn(c)
        \/ WriteMessage(c)
        \/ LoopBack(c)
        \/ ReadError(c)
        \/ UnregisterLock(c)
        \/ UnregisterReturn(c)
        \/ MarkOffline(c)
        \/ BroadcastOffline(c)
        \/ BroadcastOfflineReturn(c)
        \/ Close(c)

OrderSpec == OrderInit /\ [][OrderNext]_vars

\* ------------ the handlers with the writes each connection gets, PresenceSpec
\* Every connection keeps the history of the writes made on it.
PresenceInit ==
    /\ clients = NewHub
    /\ mu = [w |-> {}, r |-> {}]
    /\ sess = [c \in FanoutConns |-> InitSess]
    /\ status = [u \in Users |-> "offline"]
    /\ log = [c \in FanoutConns |-> << >>]
    /\ live = [u \in Users |-> {}]
    /\ periods = [u \in Users |-> 0]
    /\ ended = [u \in Users |-> 0]
    /\ dbFailed = [u \in Users |-> FALSE]
    /\ hub = InitHub
    /\ work = [c \in FanoutConns |-> NoWork]
    /\ writes = {}
    /\ hist = [c \in FanoutConns |-> [NoHist EXCEPT !.on = TRUE]]

PresenceSpec == PresenceInit /\ [][FanoutNext]_vars

\* --------------------------- the registry lock under fair scheduling, LockSpec
\* The peers send typing indicators addressed to users.
TypingStarts ==
    {Payload("text", "ok", "typing_start", "ok", r, "", 0) : r \in Users}

\* main.go:612 with a peer that sends typing indicators only.
ReadTyping(c) == ReadMessage(c) /\ work'[c].p \in TypingStarts

\* sync.RWMutex: a goroutine that has called Lock and waits for the readers
\* to leave holds back every later RLock. A handler about to take the write
\* lock counts as having called Lock.
WriterWaiting == \E d \in Conns : sess[d].pc \in {"Register", "Unregister"}

\* hub.go:64, 83: RLock, behind the writers that wait.
LookupQueued(c) == ~WriterWaiting /\ Lookup(c)
BroadcastOnlineQueued(c) == ~WriterWaiting /\ BroadcastOnline(c)
BroadcastOfflineQueued(c) == ~WriterWaiting /\ BroadcastOffline(c)

\* The steps in which handler c takes the registry lock (hub.go:25, 43, 64,
\* 83), and those in which it gives it back (the deferred Unlock or RUnlock).
Acquire(c) ==
    \/ RegisterLock(c)
    \/ UnregisterLock(c)
    \/ LookupQueued(c)
    \/ BroadcastOnlineQueued(c)
    \/ BroadcastOfflineQueued(c)

Release(c) ==
    \/ RegisterReturn(c)
    \/ UnregisterReturn(c)
    \/ LookupReturn(c)
    \/ BroadcastOnlineReturn(c)
    \/ BroadcastOfflineReturn(c)

LockNext ==
    \E c \in Conns :
        \/ Upgrade(c)
        \/ Authenticate(c)
        \/ RegisterLock(c)
        \/ RegisterReturn(c)
        \/ MarkOnline(c)
        \/ BroadcastOnlineQueued(c)
        \/ BroadcastOnlineReturn(c)
        \/ ReadTyping(c)
        \/ LookupQueued(c)
        \/ LookupReturn(c)
        \/ WriteMessage(c)
        \/ LoopBack(c)
        \/ ReadError(c)
        \/ UnregisterLock(c)
        \/ UnregisterReturn(c)
        \/ MarkOffline(c)
        \/ BroadcastOfflineQueued(c)
        \/ BroadcastOfflineReturn(c)
        \/ Close(c)

\* sync.RWMutex lets no waiting Lock or RLock starve (a released writer lets
\* the waiting readers in, a waiting writer is woken when the lock is free), and a
\* goroutine inside a method of the hub runs on to its deferred unlock.
\* Nothing else is assumed to make progress: a WriteMessage, of a delivery or
\* of a goroutine of Broadcast, may stall forever, and so may the store.
LockSpec ==
    /\ Init
    /\ [][LockNext]_vars
    /\ \A c \in Conns : SF_vars(Acquire(c)) /\ WF_vars(Release(c))

\* ------------------------------------------------------------ the claims
\* What the history of handler c records.
Events(c, ev) == {i \in 1..Len(log[c]) : log[c][i].ev = ev}
EventsWith(c, ev, arg) ==
    {i \in 1..Len(log[c]) : log[c][i].ev = ev /\ log[c][i].arg = arg}
Has(c, ev, arg) == EventsWith(c, ev, arg) # {}
Count(c, ev, arg) == Cardinality(EventsWith(c, ev, arg))
SessionsOf(u) == {c \in Conns : sess[c].userID = u}

\* C1: in every reachable state of the registry, under every interleaving of
\* the handlers' Register and Unregister calls, a user id is a key of the
\* table if and only if its connection set is non-empty: no key maps to an
\* empty set.
C1_KeyIffNonEmpty ==
    \A u \in Users : (u \in DOMAIN clients) <=> (Conn(clients, u) # {})

\* C1 witness: a user's last connection has been unregistered while another
\* user is still registered.
C1_Witness ==
    \E c \in Conns :
        /\ Has(c, "Unregister", "true")
        /\ sess[c].userID \notin DOMAIN clients
        /\ DOMAIN clients # {}

\* C2: under every interleaving of concurrent handlers, each user's set in
\* the table is exactly the set of connections registered and not yet
\* unregistered, and the user's key is present iff that set has at least one
\* member.
C2_TableIsLiveSet ==
    \A u \in Users :
        /\ Conn(clients, u) = live[u]
        /\ (u \in DOMAIN clients) <=> (Cardinality(live[u]) > 0)

\* C2 witness: two handlers of the same user are both registered, one
\* reading and one about to unregister.
C2_Witness ==
    \E u \in Users :
        /\ Cardinality(live[u]) >= 2
        /\ \E c \in live[u] : sess[c].pc = "ReadLoop"
        /\ \E c \in live[u] : sess[c].pc = "Unregister"

\* C3: Register returns true iff the user's set was empty or absent just
\* before the call, so the number of Register calls that returned true for a
\* user is the number of times the user's key appeared: one per online
\* period.
C3_RegisterReturnsFirst ==
    /\ hub.op = "Register" => (hub.ret <=> (Conn(hub.pre, hub.u) = {}))
    /\ \A u \in Users : hub.regTrue[u] = periods[u]

\* C3 witness: a Register call on a non-empty set, in the second online
\* period of the user.
C3_Witness ==
    /\ hub.op = "Register"
    /\ Conn(hub.pre, hub.u) # {}
    /\ ~hub.ret
    /\ ended[hub.u] >= 1

\* C4: Unregister returns true iff the call removed the user's last
\* connection and with it the user's key, so the number of Unregister calls
\* that returned true for a user is the number of times the user's key
\* disappeared: one per online period.
C4_UnregisterReturnsLast ==
    /\ hub.op = "Unregister" =>
         /\ hub.ret <=> (hub.u \in DOMAIN hub.pre /\ hub.u \notin DOMAIN clients)
         /\ hub.ret <=> (hub.c \in Conn(hub.pre, hub.u) /\ Conn(clients, hub.u) = {})
    /\ \A u \in Users : hub.unregTrue[u] = ended[u]

\* C4 witness: an Unregister call that emptied the user's set, after an
\* Unregister call for the same user that did not.
C4_Witness ==
    /\ hub.op = "Unregister"
    /\ hub.ret
    /\ hub.pre[hub.u] = {hub.c}
    /\ hub.calls >= 4
    /\ hub.regTrue[hub.u] = 1

\* C5: Unregister for a user with no key, or for a connection that is not in
\* the user's set, returns false and leaves the table as it was.
C5_UnregisterUnknownIsNoOp ==
    (/\ hub.op = "Unregister"
     /\ hub.c \notin Conn(hub.pre, hub.u))
    => (~hub.ret /\ clients = hub.pre)

\* C5 witness: Unregister of a connection that is not in the set of a user
\* who has another connection registered.
C5_Witness ==
    /\ hub.op = "Unregister"
    /\ hub.u \in DOMAIN hub.pre
    /\ hub.c \notin hub.pre[hub.u]
    /\ ~hub.ret

\* C6: each online period of a user has exactly one session whose Register
\* returned true and, once ended, exactly one whose Unregister returned
\* true; a session issues one request to mark the user online iff its
\* Register returned true, one request to mark the user offline iff its
\* Unregister returned true, and no presence request otherwise (a request
\* is outstanding only while its session stands at the status update).
C6_OneRequestPerTransition ==
    /\ \A u \in Users :
         /\ periods[u] = Cardinality({c \in SessionsOf(u) : Has(c, "Register", "true")})
         /\ ended[u] = Cardinality({c \in SessionsOf(u) : Has(c, "Unregister", "true")})
    /\ \A c \in Conns :
         /\ Count(c, "UpdateUserStatus", "online") =
              (IF Has(c, "Register", "true") /\ sess[c].pc # "Online" THEN 1 ELSE 0)
         /\ Count(c, "UpdateUserStatus", "offline") =
              (IF Has(c, "Unregister", "true") /\ sess[c].pc # "Offline" THEN 1 ELSE 0)

\* C6 witness: one online period of a user, opened by one session (which
\* asked for the online mark and left first, asking nothing) and ended by
\* another (which asked only for the offline mark).
C6_Witness ==
    \E u \in Users : \E c, d \in SessionsOf(u) :
        /\ c # d
        /\ periods[u] = 1 /\ ended[u] = 1
        /\ Has(c, "Register", "true") /\ Has(c, "Unregister", "false")
        /\ Count(c, "UpdateUserStatus", "online") = 1
        /\ Count(c, "UpdateUserStatus", "offline") = 0
        /\ Has(d, "Register", "false") /\ Has(d, "Unregister", "true")
        /\ Count(d, "UpdateUserStatus", "online") = 0
        /\ Count(d, "UpdateUserStatus", "offline") = 1

\* No session stands between its Register or Unregister call and the end of
\* the status update the call triggers.
Quiescent ==
    \A c \in Conns :
        sess[c].pc \notin {"RegisterStore", "Online", "UnregisterStore", "Offline"}

\* C7: in every quiescent state reached without a persistence failure, the
\* durable status of a user is "online" iff the user has a connection in the
\* registry.
C7_StatusMatchesRegistry ==
    \A u \in Users :
        (Quiescent /\ ~dbFailed[u]) =>
            ((status[u] = "online") <=> (u \in DOMAIN clients))

Reported(c) == sess[c].pc \in {"Unregister", "UnregisterStore"}

\* c is authenticated and its transport has not been seen to fail or close.
Open(c) ==
    sess[c].pc \in {"Register", "RegisterStore", "Online", "BroadcastOnline",
                    "BroadcastOnlineReturn", "ReadLoop"}

OfflineRequests(u) ==
    Cardinality({c \in SessionsOf(u) : Has(c, "UpdateUserStatus", "offline")})

Rejected(c) == sess[c].tok.kind \in {"missing", "malformed", "expired"}

\* C10: a session whose token is missing, malformed or expired sends the
\* policy-violation close and returns: past the token check its whole history
\* is that close frame, then the close of the connection; it calls neither
\* Register nor Unregister, it persists and broadcasts no status, and its
\* connection is in no set of the registry.
C10_RejectedNeverRegistered ==
    \A c \in Conns :
        (Rejected(c) /\ sess[c].pc # "Auth") =>
            /\ sess[c].pc \in {"Close", "Done"}
            /\ log[c] = IF sess[c].pc = "Close"
                        THEN <<Event("CloseFrame", "ClosePolicyViolation", "", {})>>
                        ELSE <<Event("CloseFrame", "ClosePolicyViolation", "", {}),
                               Event("Close", "", "", {})>>
            /\ \A u \in DOMAIN clients : c \notin clients[u]
            /\ \A u \in Users : c \notin live[u]

\* C10 witness: a session with an expired token of a user has returned while
\* that user is online through another connection.
C10_Witness ==
    \E c \in Conns :
        /\ sess[c].tok.kind = "expired"
        /\ sess[c].pc = "Done"
        /\ sess[c].tok.uid \in DOMAIN clients

\* What the iteration of handler c has done so far for the payload in hand.
Steps(c) == work[c].steps
StepsOf(c, op) == {i \in 1..Len(Steps(c)) : Steps(c)[i].op = op}
Writes(c) == StepsOf(c, "WriteMessage")
WritesTo(c, to) == {i \in Writes(c) : Steps(c)[i].to = to}
AtEnd(c) == sess[c].pc = "EndIteration"

\* The payload in hand is a decodable envelope of one of these types, with
\* fields that fit its struct.
Carries(c, types) ==
    /\ work[c].p.frame = "text"
    /\ work[c].p.json = "ok"
    /\ work[c].p.fields = "ok"
    /\ work[c].p.type \in types

\* A private message that passes the validation of the spec: a positive
\* recipient and a content that is not empty.
ValidPrivate(c) ==
    /\ Carries(c, {"private_message"})
    /\ work[c].p.recipient_id > 0
    /\ work[c].p.content # ""

PersistFailed(c) ==
    \E i \in StepsOf(c, "CreateMessage") : Steps(c)[i].res = "err"

\* C11: while a private message is processed, every recipient lookup and
\* every delivery write comes after a CreateMessage call that has completed
\* successfully; when CreateMessage fails it is the only call made for the
\* message (no lookup, no write, no second CreateMessage), and the handler's
\* next step is back at the head of the loop, still registered.
C11_PersistBeforeDelivery ==
    /\ [](\A c \in Conns :
            Carries(c, {"private_message"}) =>
              /\ \A i \in StepsOf(c, "GetUserConnections") \cup Writes(c) :
                    \E j \in StepsOf(c, "CreateMessage") :
                        j < i /\ Steps(c)[j].res = "ok"
              /\ Cardinality(StepsOf(c, "CreateMessage")) <= 1
              /\ PersistFailed(c) =>
                    /\ Len(Steps(c)) = 1
                    /\ work[c].recipientConnections = {}
                    /\ AtEnd(c))
    /\ [][\A c \in Conns :
            (PersistFailed(c) /\ sess'[c] # sess[c]) =>
                /\ sess'[c].pc = "ReadLoop"
                /\ c \in live'[sess[c].userID]]_vars

\* C11 witness: CreateMessage has failed for a private message whose
\* recipient is registered at that moment.
C11_Witness ==
    \E c \in Conns :
        /\ ValidPrivate(c)
        /\ PersistFailed(c)
        /\ Conn(clients, work[c].p.recipient_id) # {}

Persisted(c) ==
    \E i \in StepsOf(c, "CreateMessage") : Steps(c)[i].res = "ok"

\* C12: for a valid private message that CreateMessage accepted, there is
\* exactly one CreateMessage call; the lookup returns the connections the
\* recipient has registered at that moment; every write carries the
\* incoming_message with the payload's content and goes to a connection of
\* that lookup, at most once each; when the iteration ends each of the N
\* connections has had exactly one write and no other connection any (none
\* at all when N = 0); and once the iteration has ended nothing more is done
\* for the message.
C12_PersistOnceDeliverToEach ==
    /\ [](\A c \in Conns :
            (ValidPrivate(c) /\ Persisted(c)) =>
              /\ Cardinality(StepsOf(c, "CreateMessage")) = 1
              /\ Cardinality(StepsOf(c, "GetUserConnections")) <= 1
              /\ \A i \in Writes(c) :
                    /\ Steps(c)[i].to \in work[c].recipientConnections
                    /\ Steps(c)[i].arg.type = "incoming_message"
                    /\ Steps(c)[i].arg.content = work[c].p.content
              /\ \A to \in Conns : Cardinality(WritesTo(c, to)) <= 1
              /\ AtEnd(c) =>
                    /\ Cardinality(StepsOf(c, "GetUserConnections")) = 1
                    /\ \A to \in Conns :
                          Cardinality(WritesTo(c, to)) =
                             IF to \in work[c].recipientConnections THEN 1 ELSE 0)
    /\ [][\A c \in Conns :
            /\ (ValidPrivate(c) /\ sess[c].pc = "GetUserConnections"
                                /\ sess'[c].pc # "GetUserConnections") =>
                    work'[c].recipientConnections = live[work[c].p.recipient_id]
            /\ AtEnd(c) => work'[c] \in {work[c], NoWork}]_vars

\* C12 witness: a valid private message has been persisted and its iteration
\* has ended with one write on each of the recipient's two connections.
C12_Witness ==
    \E c \in Conns :
        /\ ValidPrivate(c)
        /\ Persisted(c)
        /\ AtEnd(c)
        /\ Cardinality(work[c].recipientConnections) = 2
        /\ Cardinality(Writes(c)) = 2

\* The payload in hand is a private message that fails the validation.
InvalidPrivate(c) ==
    /\ Carries(c, {"private_message"})
    /\ (work[c].p.recipient_id <= 0 \/ work[c].p.content = "")

\* C13: a private message whose recipient id is not positive or whose
\* content is empty makes the handler call nothing (no CreateMessage, no
\* lookup, no write); reading it leaves the registry as it was, and the
\* handler's next step is back at the head of the loop, still registered.
C13_InvalidPrivateDiscarded ==
    /\ [](\A c \in Conns :
            InvalidPrivate(c) =>
              /\ Steps(c) = << >>
              /\ AtEnd(c)
              /\ c \in Conn(clients, sess[c].userID))
    /\ [][\A c \in Conns :
            /\ (~InvalidPrivate(c) /\ InvalidPrivate(c)') =>
                  /\ clients' = clients
                  /\ live' = live
            /\ (InvalidPrivate(c) /\ sess'[c] # sess[c]) =>
                  /\ sess'[c] = [sess[c] EXCEPT !.pc = "ReadLoop"]
                  /\ work'[c] = NoWork
                  /\ clients' = clients]_vars

\* C13 witness: a private message with an empty content, addressed to a user
\* who is online, has been read and discarded.
C13_Witness ==
    \E c \in Conns :
        /\ InvalidPrivate(c)
        /\ work[c].p.content = ""
        /\ work[c].p.recipient_id \in DOMAIN clients
        /\ AtEnd(c)

FailedWrites(c) == {i \in Writes(c) : Steps(c)[i].res = "err"}

\* C14: when a write of a private message's delivery has failed, the
\* CreateMessage call of the message stands as the only call to the store,
\* the sender's handler stays in its delivery or at the end of the iteration
\* and registered, every connection of the lookup has had its write attempted
\* by the end of the iteration, and the failing write itself changes nothing
\* of the handler but its place in the range loop.
C14_WriteFailureIsLocal ==
    /\ [](\A c \in Conns :
            (ValidPrivate(c) /\ FailedWrites(c) # {}) =>
              /\ Persisted(c)
              /\ StepsOf(c, "CreateMessage") = {1}
              /\ sess[c].pc \in {"Deliver", "EndIteration"}
              /\ c \in Conn(clients, sess[c].userID)
              /\ \A to \in work[c].recipientConnections \ work[c].pending :
                    WritesTo(c, to) # {}
              /\ AtEnd(c) => work[c].pending = {})
    /\ [][\A c \in Conns :
            (ValidPrivate(c) /\ FailedWrites(c)' \ FailedWrites(c) # {}) =>
              /\ \E to \in work[c].pending :
                    /\ work'[c].pending = work[c].pending \ {to}
                    /\ Steps(c)' = Append(Steps(c),
                                     Step("WriteMessage", to, work[c].jsonMsg, "err"))
              /\ sess'[c] = [sess[c] EXCEPT !.pc =
                                IF work'[c].pending = {} THEN "EndIteration" ELSE "Deliver"]
              /\ clients' = clients]_vars

\* C14 witness: the first write of a private message's delivery failed, and
\* the write on the recipient's other connection was attempted after it.
C14_Witness ==
    \E c \in Conns :
        /\ ValidPrivate(c)
        /\ AtEnd(c)
        /\ Cardinality(Writes(c)) = 2
        /\ \E i, j \in Writes(c) : i < j /\ Steps(c)[i].res = "err"

\* The identity the handshake bound to connection c: the user the verified
\* token was issued to.
Authenticated(c) == sess[c].tok.uid

\* C15: every CreateMessage call made for a private message names the
\* handshake's identity as sender and the payload's recipient_id as receiver,
\* and every envelope written for it carries that identity as sender_id and
\* its username as sender_username; both are fixed by the identity and the
\* payload's recipient_id and content alone, whatever sender_id the payload
\* holds.
C15_SenderIsAuthenticated ==
    \A c \in Conns :
        Carries(c, {"private_message"}) =>
          /\ \A i \in StepsOf(c, "CreateMessage") :
                Steps(c)[i].arg = [SenderID |-> Authenticated(c),
                                   ReceiverID |-> work[c].p.recipient_id,
                                   Content |-> work[c].p.content]
          /\ \A i \in Writes(c) :
                Steps(c)[i].arg = [type |-> "incoming_message",
                                   sender_id |-> Authenticated(c),
                                   sender_username |-> <<"user", Authenticated(c)>>,
                                   content |-> work[c].p.content]

\* C15 witness: a private message whose payload names another user as
\* sender_id has been persisted and written to a connection.
C15_Witness ==
    \E c \in Conns :
        /\ ValidPrivate(c)
        /\ Persisted(c)
        /\ Writes(c) # {}
        /\ work[c].p.sender_id \in Users \ {Authenticated(c)}

Typing == {"typing_start", "typing_stop"}

\* C16: for a typing_start or typing_stop the handler never calls
\* CreateMessage; every envelope it writes is the indicator with sender_id
\* set to the handshake's identity, a value that does not depend on the
\* sender_id of the payload; the writes go to the connections the recipient
\* has registered at the lookup, one each by the end of the iteration, and to
\* none when there is no such connection.
C16_TypingStampedNotPersisted ==
    /\ [](\A c \in Conns :
            Carries(c, Typing) =>
              /\ StepsOf(c, "CreateMessage") = {}
              /\ \A i \in Writes(c) :
                    /\ Steps(c)[i].arg = [type |-> work[c].p.type,
                                          recipient_id |-> work[c].p.recipient_id,
                                          sender_id |-> Authenticated(c)]
                    /\ Steps(c)[i].to \in work[c].recipientConnections
              /\ AtEnd(c) =>
                    \A to \in Conns :
                        Cardinality(WritesTo(c, to)) =
                           IF to \in work[c].recipientConnections THEN 1 ELSE 0)
    /\ [][\A c \in Conns :
            (Carries(c, Typing) /\ sess[c].pc = "GetUserConnections"
                                /\ sess'[c].pc # "GetUserConnections") =>
                work'[c].recipientConnections = live[work[c].p.recipient_id]]_vars

\* C16 witness: a typing indicator whose payload names another user as
\* sender_id has been forwarded to a connection of the recipient.
C16_Witness ==
    \E c \in Conns :
        /\ Carries(c, Typing)
        /\ Writes(c) # {}
        /\ work[c].p.sender_id \in Users \ {Authenticated(c)}

\* C17: for a message_read naming sender A, read on a connection of B, the
\* handler never calls CreateMessage; every envelope it writes is
\* read_receipt_update with reader_id B and sender_id A; the writes go to the
\* connections A has registered at the lookup, exactly one each by the end of
\* the iteration and none elsewhere, so none at all when A is offline.
C17_ReadReceiptToSender ==
    /\ [](\A c \in Conns :
            Carries(c, {"message_read"}) =>
              /\ StepsOf(c, "CreateMessage") = {}
              /\ \A i \in Writes(c) :
                    /\ Steps(c)[i].arg = [type |-> "read_receipt_update",
                                          reader_id |-> Authenticated(c),
                                          sender_id |-> work[c].p.sender_id]
                    /\ Steps(c)[i].to \in work[c].recipientConnections
              /\ AtEnd(c) =>
                    \A to \in Conns :
                        Cardinality(WritesTo(c, to)) =
                           IF to \in work[c].recipientConnections THEN 1 ELSE 0)
    /\ [][\A c \in Conns :
            (Carries(c, {"message_read"}) /\ sess[c].pc = "GetUserConnections"
                                          /\ sess'[c].pc # "GetUserConnections") =>
                work'[c].recipientConnections = live[work[c].p.sender_id]]_vars

\* C17 witness: user B has sent message_read naming another user A, and the
\* iteration has ended with a receipt written to A's connection.
C17_Witness ==
    \E c \in Conns :
        /\ Carries(c, {"message_read"})
        /\ AtEnd(c)
        /\ work[c].p.sender_id \in Users \ {Authenticated(c)}
        /\ \E i \in Writes(c) : sess[Steps(c)[i].to].userID = work[c].p.sender_id

KnownTypes == {"private_message", "message_read"} \cup Typing

\* The payload in hand is a text frame that does not decode, has no string
\* "type", or has a type the switch does not know.
Malformed(c) ==
    /\ work[c].p.frame = "text"
    /\ \/ work[c].p.json # "ok"
       \/ work[c].p.type \notin KnownTypes

\* Everything but handler c's own place and locals.
OthersUnchanged(c) ==
    /\ UNCHANGED <<clients, mu, status, log, live, periods, ended, dbFailed, hub, writes, hist>>
    /\ \A d \in Conns \ {c} : sess'[d] = sess[d] /\ work'[d] = work[d]

\* C18: a payload that does not decode, has no string type or has an unknown
\* type makes the handler call nothing and leaves its connection registered;
\* reading it changes only the handler's place in the loop and the payload in
\* hand, and the handler's next step puts it back at the head of the loop
\* with no locals, so the state in which the next payload is read is the one
\* in which the bad payload was read.
C18_MalformedDiscardedLoopGoesOn ==
    /\ [](\A c \in Conns :
            Malformed(c) =>
              /\ Steps(c) = << >>
              /\ AtEnd(c)
              /\ work[c] = [NoWork EXCEPT !.p = work[c].p, !.outcome = work[c].outcome]
              /\ c \in Conn(clients, sess[c].userID))
    /\ [][\A c \in Conns :
            /\ (~Malformed(c) /\ Malformed(c)') =>
                  /\ work[c] = NoWork
                  /\ sess[c].pc = "ReadLoop"
                  /\ sess'[c] = [sess[c] EXCEPT !.pc = "EndIteration"]
                  /\ OthersUnchanged(c)
            /\ (Malformed(c) /\ sess'[c] # sess[c]) =>
                  /\ sess'[c] = [sess[c] EXCEPT !.pc = "ReadLoop"]
                  /\ work'[c] = NoWork
                  /\ OthersUnchanged(c)]_vars

\* C18 witness: an envelope with an unknown type has been read and discarded
\* on a registered connection.
C18_Witness ==
    \E c \in Conns :
        /\ Malformed(c)
        /\ work[c].p.json = "ok"
        /\ work[c].p.type \notin KnownTypes \cup {""}
        /\ AtEnd(c)

\* Handler c is in its read loop: waiting for a payload or working on one.
InLoop(c) ==
    sess[c].pc \in {"ReadLoop", "CreateMessage", "GetUserConnections",
                    "GetUserConnectionsReturn", "Deliver", "EndIteration"}

\* C19: a handler in its read loop has its connection registered; it leaves
\* the loop only from the point where it waits for a payload, with no
\* payload in hand, because ReadMessage returned an error; and a connection
\* is taken out of the registry only once its handler has left the loop.
C19_LeavesOnlyOnReadError ==
    /\ [](\A c \in Conns : InLoop(c) => c \in Conn(clients, sess[c].userID))
    /\ [][\A c \in Conns :
            /\ (InLoop(c) /\ ~InLoop(c)') =>
                  /\ sess[c].pc = "ReadLoop"
                  /\ work[c] = NoWork
                  /\ sess'[c].pc = "Unregister"
                  /\ sess'[c].err \in {"normal", "unexpected"}
            /\ (\E u \in Users : c \in Conn(clients, u) /\ c \notin Conn(clients', u)) =>
                  ~InLoop(c)]_vars

\* C19 witness: a handler has had a write fail on a connection whose own
\* handler has left its loop and returned, and is itself still in its loop.
C19_Witness ==
    \E c, d \in Conns :
        /\ c # d
        /\ sess[c].pc = "Done"
        /\ Has(c, "Unregister", "true") \/ Has(c, "Unregister", "false")
        /\ InLoop(d)
        /\ \E i \in FailedWrites(d) : Steps(d)[i].to = c

\* The payload in hand is one the handler discards: not a text frame,
\* malformed, of a known type with fields that do not fit or fail the
\* validation, or a private message CreateMessage rejected.
Discarded(c) ==
    \/ work[c].p.frame = "binary"
    \/ Malformed(c)
    \/ /\ work[c].p.frame = "text" /\ work[c].p.json = "ok"
       /\ work[c].p.type \in KnownTypes
       /\ work[c].p.fields # "ok"
    \/ InvalidPrivate(c)
    \/ Carries(c, Typing) /\ work[c].p.recipient_id <= 0
    \/ Carries(c, {"message_read"}) /\ work[c].p.sender_id <= 0
    \/ PersistFailed(c)

\* C20: for a discarded payload the handler makes no write on any
\* connection, its own included, and no step it takes for the payload
\* records a broadcast or any other event.
C20_DiscardWritesNothing ==
    /\ [](\A c \in Conns :
            Discarded(c) => /\ Writes(c) = {}
                            /\ work[c].pending = {}
                            /\ AtEnd(c))
    /\ [][\A c \in Conns :
            ((Discarded(c) \/ Discarded(c)') /\ sess'[c] # sess[c]) =>
                /\ log' = log
                /\ Writes(c)' = {}]_vars

\* C20 witness: a payload of a known type whose fields do not fit its struct
\* has been discarded while another connection is registered.
C20_Witness ==
    \E c, d \in Conns :
        /\ c # d
        /\ work[c].p.type \in KnownTypes
        /\ work[c].p.fields = "bad"
        /\ AtEnd(c)
        /\ d \in Conn(clients, sess[d].userID)

\* The step is a call of Broadcast by k; the goroutines the step starts.
BroadcastCalled(k) == Events(k, "Broadcast")' # Events(k, "Broadcast")
Started == writes' \ writes

\* The connections registered for users other than excl.
RegisteredBut(excl) == UNION {live[u] : u \in Users \ {excl}}

\* C21: a call of Broadcast with excludeUserID = U starts exactly one write
\* for each connection registered at the call for a user other than U and
\* none for any other connection, U's included; with excludeUserID = 0 that
\* is one write for every registered connection. Each write started calls
\* WriteMessage once: it goes from started to writing to finished, never
\* back.
C21_BroadcastReachesAllButExcluded ==
    /\ [][\A k \in Conns :
            BroadcastCalled(k) =>
              /\ writes \subseteq writes'
              /\ \A conn \in FanoutConns :
                    Cardinality({g \in Started : g.to = conn}) =
                       IF conn \in RegisteredBut(sess'[k].excludeUserID) THEN 1 ELSE 0
              /\ \A g \in Started : g.by = k /\ g.st = "spawned"
              /\ (sess'[k].excludeUserID = 0) =>
                    {g.to : g \in Started} = UNION {live[u] : u \in Users}]_vars
    /\ [][\A g \in writes :
            \/ g \in writes'
            \/ g.st = "spawned" /\ At(g, "writing") \in writes'
            \/ g.st = "writing" /\ (At(g, "ok") \in writes' \/ At(g, "err") \in writes')]_vars

\* C21 witness: Broadcast was called excluding a user who has a connection
\* registered, and has started writes on the two connections of the other
\* user only.
C21_Witness ==
    \E k \in Conns :
        /\ sess[k].pc = "Broadcast"
        /\ sess[k].excludeUserID \in DOMAIN clients
        /\ Cardinality({g.to : g \in writes}) = 2
        /\ \A g \in writes : g.to \notin clients[sess[k].excludeUserID]

\* Handler c has logged event ev with argument arg and result res before its
\* i-th event.
Before(c, i, ev, arg, res) ==
    \E j \in 1..(i - 1) :
        log[c][j].ev = ev /\ log[c][j].arg = arg /\ log[c][j].res = res

\* C22: a handler calls Broadcast with user_online only after its
\* UpdateUserStatus(online) has succeeded, and with its own user as the
\* excluded one; every write started for a user_online envelope names the
\* caller's user as subject and goes to a connection of another user.
C22_OnlinePersistedThenBroadcastToOthers ==
    /\ [](/\ \A c \in Conns : \A i \in EventsWith(c, "Broadcast", "user_online") :
                Before(c, i, "UpdateUserStatus", "online", "ok")
          /\ \A c \in Conns :
                sess[c].pc = "BroadcastOnlineReturn" =>
                    sess[c].excludeUserID = sess[c].userID
          /\ \A g \in writes :
                g.message.type = "user_online" =>
                    /\ g.message.user_id = sess[g.by].userID
                    /\ sess[g.to].userID # g.message.user_id)
    /\ [][\A c \in Conns :
            (BroadcastCalled(c) /\ sess[c].pc = "BroadcastOnline") =>
                \A g \in Started : g.to \notin live[sess[c].userID]]_vars

\* C22 witness: a handler is inside its user_online Broadcast while its user
\* has another connection registered, which gets no write.
C22_Witness ==
    \E c, d \in Conns :
        /\ c # d
        /\ sess[c].pc = "BroadcastOnlineReturn"
        /\ d \in Conn(clients, sess[c].userID)
        /\ \A g \in writes : g.to # d

\* Handler c's UpdateUserStatus(status) has failed.
FailedUpdate(c, st) ==
    \E i \in EventsWith(c, "UpdateUserStatus", st) : log[c][i].res = "err"

\* C23: once a handler's UpdateUserStatus has failed on an online (offline)
\* transition, the handler's next call is the user_online (user_offline)
\* Broadcast: it is either about to make it or has made it.
C23_BroadcastDespiteStoreFailure ==
    \A c \in Conns :
        /\ (FailedUpdate(c, "online") /\ sess[c].pc # "BroadcastOnline") =>
                Has(c, "Broadcast", "user_online")
        /\ (FailedUpdate(c, "offline") /\ sess[c].pc # "BroadcastOffline") =>
                Has(c, "Broadcast", "user_offline")

\* C24: a handler calls Broadcast with user_offline only after its Unregister
\* returned true and its UpdateUserStatus(offline) succeeded, and with 0 as
\* the excluded user; the call starts one write, naming the caller's user,
\* for every connection registered at that moment, those the caller's user
\* has registered since included.
C24_OfflinePersistedThenBroadcastToAll ==
    /\ [](/\ \A c \in Conns : \A i \in EventsWith(c, "Broadcast", "user_offline") :
                /\ Before(c, i, "Unregister", "true", "")
                /\ Before(c, i, "UpdateUserStatus", "offline", "ok")
          /\ \A c \in Conns :
                sess[c].pc = "BroadcastOfflineReturn" => sess[c].excludeUserID = 0
          /\ \A g \in writes :
                g.message.type = "user_offline" =>
                    g.message.user_id = sess[g.by].userID)
    /\ [][\A c \in Conns :
            (BroadcastCalled(c) /\ sess[c].pc = "BroadcastOffline") =>
                /\ \A conn \in Conns :
                      Cardinality({g \in Started : g.to = conn}) =
                         IF conn \in UNION {live[u] : u \in Users} THEN 1 ELSE 0
                /\ \A g \in Started :
                      g.message = [type |-> "user_offline", user_id |-> sess[c].userID]]_vars

\* C24 witness: a handler is inside its user_offline Broadcast and has
\* started a write on a connection its own user registered after the
\* transition.
C24_Witness ==
    \E c \in Conns : \E g \in writes :
        /\ sess[c].pc = "BroadcastOfflineReturn"
        /\ g.by = c
        /\ g.message.type = "user_offline"
        /\ g.to \in Conn(clients, sess[c].userID)

\* C25: whatever the other writes of a Broadcast have come to (failed,
\* stalled in WriteMessage, not yet scheduled), a write that has not yet
\* called WriteMessage can call it and a write in WriteMessage can return;
\* the caller inside Broadcast can return and release the read lock with
\* writes still unfinished; and a step of one write changes nothing of any
\* other write, of the caller or of the lock.
C25_WritesIndependentBroadcastReturns ==
    /\ [](/\ \A k \in Conns :
                sess[k].pc = "Broadcast" => ENABLED HubBroadcastReturn(k)
          /\ \A g \in writes :
                /\ g.st = "spawned" => ENABLED GoWriteMessage(g)
                /\ g.st = "writing" => ENABLED GoWriteReturn(g))
    /\ [][\A g \in writes :
            g \notin writes' =>
                /\ writes \ {g} \subseteq writes'
                /\ Cardinality(writes') = Cardinality(writes)
                /\ UNCHANGED <<sess, mu, clients>>]_vars
    /\ [][\A k \in Conns :
            (sess[k].pc = "Broadcast" /\ sess'[k].pc # "Broadcast") =>
                /\ k \notin mu'.r
                /\ writes' = writes]_vars

\* C25 witness: Broadcast has returned and released the lock while one of its
\* writes is still inside WriteMessage and another, on another connection,
\* has completed.
C25_Witness ==
    \E g, h \in writes :
        /\ g.by = h.by /\ g.to # h.to
        /\ g.st = "writing" /\ h.st = "ok"
        /\ sess[g.by].pc = "Idle"
        /\ mu.r = {}

\* The writes of Broadcast that are inside WriteMessage on connection conn.
InProgress(conn) == {g \in writes : g.to = conn /\ g.st = "writing"}

\* C26: at any time at most one write is inside WriteMessage on any given
\* connection.
C26_OneWriteAtATimePerConn ==
    \A conn \in Conns : Cardinality(InProgress(conn)) <= 1

\* The user an envelope of iteration c is addressed to: the stated recipient,
\* or for a read receipt the named original sender.
Addressed(c) ==
    IF work[c].p.type = "message_read" THEN work[c].p.sender_id
                                       ELSE work[c].p.recipient_id

\* Connection to went through the handshake with a valid token and has been
\* registered by its handler.
AuthenticatedAndRegistered(to) ==
    /\ sess[to].tok.kind = "valid"
    /\ Events(to, "Register") # {}

\* C27: every incoming_message, typing indicator and read_receipt_update is
\* written to a connection that was authenticated and registered, and whose
\* user is the one the envelope is addressed to; none is written to a
\* connection bound to another user.
C27_WrittenOnlyToAddressedUser ==
    \A c \in Conns : \A i \in Writes(c) :
        /\ Steps(c)[i].arg.type \in {"incoming_message", "read_receipt_update"} \cup Typing
        /\ AuthenticatedAndRegistered(Steps(c)[i].to)
        /\ Authenticated(Steps(c)[i].to) = Addressed(c)
        /\ sess[Steps(c)[i].to].userID = Addressed(c)

\* C27 witness: a session of user A, itself registered, has written an
\* envelope addressed to another user B while connections of both users were
\* in the registry.
C27_Witness ==
    \E c \in Conns :
        /\ Writes(c) # {}
        /\ Addressed(c) # Authenticated(c)
        /\ c \in live[Authenticated(c)]
        /\ live[Addressed(c)] # {}

\* The connections registered for user id u, none for an id that is no user.
RegisteredFor(u) == IF u \in Users THEN live[u] ELSE {}

\* Iteration c holds the slice GetUserConnections returned.
HoldsSnapshot(c) ==
    sess[c].pc \in {"GetUserConnectionsReturn", "Deliver", "EndIteration"}

\* C28: the slice GetUserConnections returns equals the set registered for
\* the user at the call, empty when the user has no key, and the call leaves
\* the table alone; while the iteration holds the slice no step changes it,
\* steps of Register and Unregister included; a write of the range loop goes
\* to a member of the slice and leaves the table alone.
C28_SnapshotIsIndependent ==
    /\ [][\A c \in Conns :
            (sess[c].pc = "GetUserConnections" /\ sess'[c].pc # "GetUserConnections") =>
                /\ work'[c].recipientConnections = RegisteredFor(work[c].target)
                /\ work[c].target \notin DOMAIN clients =>
                      work'[c].recipientConnections = {}
                /\ clients' = clients]_vars
    /\ [][\A c \in Conns :
            (HoldsSnapshot(c) /\ HoldsSnapshot(c)') =>
                work'[c].recipientConnections = work[c].recipientConnections]_vars
    /\ [][\A c \in Conns :
            Writes(c)' # Writes(c) =>
                /\ clients' = clients
                /\ \A i \in Writes(c)' \ Writes(c) :
                      Steps(c)'[i].to \in work[c].recipientConnections]_vars

\* C28 witness: after the copy the user's connection was unregistered, and
\* the iteration still wrote to it: the slice held differs from the table.
C28_Witness ==
    \E c \in Conns :
        /\ AtEnd(c)
        /\ work[c].recipientConnections # RegisteredFor(work[c].target)
        /\ \E i \in Writes(c) :
              Steps(c)[i].to \notin RegisteredFor(work[c].target)

\* Handler c is inside Register or Unregister, between Lock and Unlock.
Updating(c) == sess[c].pc \in {"RegisterStore", "UnregisterStore"}

\* Handler c is inside GetUserConnections, between RLock and RUnlock; inside
\* Broadcast, between RLock and RUnlock.
Copying(c) == sess[c].pc = "GetUserConnectionsReturn"
Iterating(c) == sess[c].pc \in {"BroadcastOnlineReturn", "BroadcastOfflineReturn"}

\* C29: while a handler is inside Register or Unregister no other handler is
\* inside Register, Unregister, a GetUserConnections copy or a Broadcast
\* iteration, and the table changes only in a step of the one handler that is
\* inside Register or Unregister.
C29_LockDiscipline ==
    /\ [](\A c \in Conns :
            Updating(c) =>
                /\ mu.w = {c}
                /\ mu.r = {}
                /\ \A d \in Conns \ {c} :
                      ~Updating(d) /\ ~Copying(d) /\ ~Iterating(d))
    /\ [][clients' # clients =>
            \E c \in Conns :
                /\ Updating(c)
                /\ ~Updating(c)'
                /\ \A d \in Conns \ {c} :
                      ~Updating(d) /\ ~Copying(d) /\ ~Iterating(d)]_vars

\* C29 witness: a GetUserConnections copy and a Broadcast iteration overlap.
C29_Witness ==
    \E c, d \in Conns :
        /\ Copying(c)
        /\ Iterating(d)
        /\ mu.r = {c, d}
        /\ mu.w = {}

\* The goroutines of Broadcast whose write has failed; the connections in
\* the table; the connections closed.
FailedGoroutines == {g \in writes : g.st = "err"}
InTable == UNION {clients[u] : u \in DOMAIN clients}
ClosedConns == {c \in Conns : Events(c, "Close") # {}}

\* The step is the return of handler c from Register, from Unregister.
ReturnsFrom(c, at) == sess[c].pc = at /\ sess'[c].pc # at

\* C30: the table changes only in the return of a handler from Register or
\* Unregister, so never in GetUserConnections, Broadcast, a write of a
\* delivery or a write of a Broadcast goroutine, failed or not; a connection
\* leaves the table only in the Unregister of its own handler's cleanup, for
\* its own user; a connection is closed only by its own handler's deferred
\* Close, outside every method of the registry; a failed write changes neither
\* the table nor what is closed.
C30_OnlyOwnUnregisterRemoves ==
    /\ [][clients' # clients =>
            \E c \in Conns :
                ReturnsFrom(c, "RegisterStore") \/ ReturnsFrom(c, "UnregisterStore")]_vars
    /\ [][\A c \in InTable \ InTable' :
            /\ ReturnsFrom(c, "UnregisterStore")
            /\ c \in clients[sess[c].userID]
            /\ Events(c, "Unregister")' # Events(c, "Unregister")]_vars
    /\ [][\A c \in ClosedConns' \ ClosedConns :
            /\ ReturnsFrom(c, "Close")
            /\ c \notin mu.w \cup mu.r
            /\ clients' = clients]_vars
    /\ [][((\E c \in Conns : FailedWrites(c)' \ FailedWrites(c) # {})
              \/ FailedGoroutines' # FailedGoroutines) =>
            /\ clients' = clients
            /\ ClosedConns' = ClosedConns
            /\ mu' = mu]_vars

\* C30 witness: a write of a delivery and a write of a Broadcast goroutine
\* have both failed on a connection that is still in the table and open.
C30_Witness ==
    \E c \in Conns, d \in InTable :
        /\ \E i \in FailedWrites(c) : Steps(c)[i].to = d
        /\ \E g \in FailedGoroutines : g.to = d
        /\ sess[d].pc = "ReadLoop"

\* What hist keeps of handler c; the calls op it made for payload p, and its
\* writes for p on connection d.
Hist(c) == hist[c].steps
CallsFor(c, p, op) ==
    {k \in 1..Len(Hist(c)) : Hist(c)[k].op = op /\ Hist(c)[k].p = p}
WritesFor(c, p, d) == {k \in CallsFor(c, p, "WriteMessage") : Hist(c)[k].to = d}

\* Payload p has arrived once on connection c.
ArrivedOnce(c, p) == Cardinality(CallsFor(c, p, "ReadMessage")) = 1

\* C31: when private message m1 has arrived on a connection before another
\* private message m2, every call made for m1 precedes the arrival of m2 and
\* every call made for m2 follows it: CreateMessage for m1 has returned
\* before m2 is read, so before CreateMessage for m2; when it succeeded, the
\* lookup for m1 and one write on each connection of its slice have returned
\* before m2 is read; so on every connection written to for both, the write
\* of m1 precedes the write of m2.
C31_OnePayloadAtATimeInOrder ==
    \A c \in Conns : \A i, j \in Reads(c) :
        LET m1 == Hist(c)[i].arg
            m2 == Hist(c)[j].arg
        IN  (i < j /\ m1 # m2 /\ ArrivedOnce(c, m1) /\ ArrivedOnce(c, m2)) =>
              /\ \A k \in 1..Len(Hist(c)) :
                    /\ Hist(c)[k].p = m1 => k < j
                    /\ Hist(c)[k].p = m2 => k >= j
              /\ Cardinality(CallsFor(c, m1, "CreateMessage")) = 1
              /\ \A a \in CallsFor(c, m1, "CreateMessage") :
                    /\ \A b \in CallsFor(c, m2, "CreateMessage") : a < b
                    /\ Hist(c)[a].res = "ok" =>
                          \E g \in CallsFor(c, m1, "GetUserConnections") :
                              /\ a < g
                              /\ \A d \in FanoutConns :
                                    /\ Cardinality(WritesFor(c, m1, d)) =
                                          IF d \in Hist(c)[g].conns THEN 1 ELSE 0
                                    /\ \A w \in WritesFor(c, m1, d) : g < w /\ w < j
              /\ \A d \in FanoutConns :
                    \A a \in WritesFor(c, m1, d), b \in WritesFor(c, m2, d) : a < b

\* C31 witness: two different private messages have arrived on one
\* connection, and a connection of their recipient has been written to for
\* both.
C31_Witness ==
    \E c \in Conns : \E i, j \in Reads(c) : \E d \in FanoutConns :
        /\ i < j
        /\ Hist(c)[i].arg # Hist(c)[j].arg
        /\ WritesFor(c, Hist(c)[i].arg, d) # {}
        /\ WritesFor(c, Hist(c)[j].arg, d) # {}

\* The users whose set holds connection c.
HoldersOf(c) == {u \in DOMAIN clients : c \in clients[u]}

\* C32: a connection is in the set of at most one user, the user its valid
\* token was issued to; its handler registers it at most once, and once its
\* handler has unregistered it, it is in no set and never enters one again.
C32_OneUserForLife ==
    /\ [](\A c \in FanoutConns :
            /\ HoldersOf(c) \subseteq {Authenticated(c)}
            /\ HoldersOf(c) # {} => sess[c].tok.kind = "valid"
            /\ Cardinality(Events(c, "Register")) <= 1
            /\ Events(c, "Unregister") # {} => HoldersOf(c) = {})
    /\ [][\A c \in FanoutConns :
            (HoldersOf(c) = {} /\ HoldersOf(c)' # {}) =>
                /\ Events(c, "Register") = {}
                /\ Events(c, "Unregister") = {}]_vars

\* C32 witness: connections of two users were registered together; one has
\* been unregistered and closed, the other is still in its user's set.
C32_Witness ==
    \E c, d \in Conns :
        /\ Authenticated(c) # Authenticated(d)
        /\ Events(c, "Unregister") # {}
        /\ sess[c].pc = "Done"
        /\ HoldersOf(d) = {Authenticated(d)}
        /\ Events(d, "Register") # {}
        /\ log[c][Len(log[c])].ev = "Close"

\* No handler is between two steps of its connect or disconnect sequence,
\* every write Broadcast started has returned, and no write and no status
\* update has failed.
AllQuiet ==
    /\ \A c \in Conns : sess[c].pc \in {"Idle", "ReadLoop", "Done"}
    /\ \A g \in writes : g.st = "ok"
    /\ \A u \in Users : ~dbFailed[u]

\* The envelopes about user u written on connection d, in the order the
\* writes returned; the Broadcast calls made about u.
About(d, u) ==
    {k \in 1..Len(Hist(d)) :
        /\ Hist(d)[k].arg \in [type : {"user_online", "user_offline"}, user_id : {u}]
        /\ Hist(d)[k].res = "ok"}
BroadcastsAbout(u) ==
    UNION {{<<c, i>> : i \in Events(c, "Broadcast")} : c \in SessionsOf(u)}

\* Connection d is registered and reading, and every Broadcast about user u
\* has written to it.
ObservedThroughout(d, u) ==
    /\ sess[d].pc = "ReadLoop"
    /\ Events(d, "Register") # {}
    /\ sess[d].userID # u
    /\ About(d, u) # {}
    /\ Cardinality(About(d, u)) = Cardinality(BroadcastsAbout(u))

\* C33: in a quiescent state, the last user_online or user_offline envelope
\* about user u written on a connection that observed u throughout says
\* user_online exactly when u has a registered connection.
C33_LastPresenceAgrees ==
    AllQuiet =>
        \A u \in Users : \A d \in Conns :
            ObservedThroughout(d, u) =>
                \A k \in About(d, u) :
                    (\A j \in About(d, u) : j <= k) =>
                        (Hist(d)[k].arg.type = "user_online") <=> (live[u] # {})

\* Connection d is in the table and its handler has not closed it.
RegisteredAndOpen(d) == d \in InTable /\ d \notin ClosedConns

\* C34: a write of a delivery, and a write of a goroutine of Broadcast when
\* it calls WriteMessage, is made on a connection that is in the table and
\* not closed at that moment.
C34_WritesTargetRegisteredConns ==
    /\ [][\A c \in Conns : \A i \in Writes(c)' \ Writes(c) :
            RegisteredAndOpen(Steps(c)'[i].to)]_vars
    /\ [][\A g \in writes :
            (g.st = "spawned" /\ At(g, "writing") \in writes' \ writes) =>
                RegisteredAndOpen(g.to)]_vars

\* Handler c has logged event ev with argument arg before its i-th event.
Earlier(c, i, ev, arg) ==
    \E j \in 1..(i - 1) : log[c][j].ev = ev /\ log[c][j].arg = arg

\* The registry half of C35: a connection its handler has closed is in no
\* set, and the handler's Unregister came before its Close.
ClosedAfterUnregister ==
    \A c \in Conns : \A i \in Events(c, "Close") :
        Events(c, "Register") # {} =>
            /\ HoldersOf(c) = {}
            /\ \E j \in Events(c, "Unregister") : j < i

\* C35: the handler of a registered connection closes it only after it has
\* unregistered it and, when Unregister reported the last connection, after
\* it has called Broadcast with user_offline; a closed connection is in no
\* set.
C35_CloseAfterUnregisterAndOffline ==
    /\ ClosedAfterUnregister
    /\ \A c \in Conns : \A i \in Events(c, "Close") :
          Earlier(c, i, "Unregister", "true") => Earlier(c, i, "Broadcast", "user_offline")

\* Handler c is about to call the method of the hub that pc names; it is
\* inside one, holding the lock.
Calling(c) ==
    sess[c].pc \in {"Register", "Unregister", "GetUserConnections",
                    "BroadcastOnline", "BroadcastOffline"}
Inside(c) == c \in mu.w \cup mu.r

\* C36: under fair scheduling of the lock, every call of Register,
\* Unregister, GetUserConnections and Broadcast gets the lock, and every
\* handler holding the lock gives it back, whatever writes stall.
C36_LockCallsReturn ==
    /\ \A c \in Conns : Calling(c) ~> Inside(c)
    /\ \A c \in Conns : Inside(c) ~> ~Inside(c)

\* C36 witness: a handler waits for the lock that a GetUserConnections copy
\* holds, while a write of a delivery and a write of a Broadcast are
\* outstanding.
C36_Witness ==
    \E c, d \in Conns :
        /\ sess[c].pc \in {"Register", "Unregister"}
        /\ Copying(d)
        /\ ~CanLock(mu)
        /\ \E g \in writes : g.st = "spawned"

\* The payload in hand is a typing indicator whose recipient_id, or a
\* message_read whose sender_id, is not positive.
InvalidNotice(c) ==
    \/ Carries(c, Typing) /\ work[c].p.recipient_id <= 0
    \/ Carries(c, {"message_read"}) /\ work[c].p.sender_id <= 0

\* C37: a typing indicator whose recipient_id is not positive and a
\* message_read whose sender_id is not positive make the handler call
\* nothing: no lookup in the registry, no slice in hand, no write; the
\* handler's next step is back at the head of the loop, and it stays
\* registered.
C37_InvalidNoticeDiscarded ==
    /\ [](\A c \in Conns :
            InvalidNotice(c) =>
              /\ Steps(c) = << >>
              /\ work[c].recipientConnections = {}
              /\ work[c].jsonMsg = NoEnvelope
              /\ work[c].outcome = "invalid"
              /\ AtEnd(c)
              /\ c \in Conn(clients, sess[c].userID))
    /\ [][\A c \in Conns :
            (InvalidNotice(c) /\ sess'[c] # sess[c]) =>
                /\ sess'[c] = [sess[c] EXCEPT !.pc = "ReadLoop"]
                /\ work'[c] = NoWork
                /\ OthersUnchanged(c)]_vars

\* C37 witness: a typing indicator with a negative recipient_id has been
\* discarded by one handler and a message_read with sender_id 0 by another.
C37_Witness ==
    \E c, d \in Conns :
        /\ Carries(c, Typing) /\ work[c].p.recipient_id < 0 /\ AtEnd(c)
        /\ Carries(d, {"message_read"}) /\ work[d].p.sender_id = 0 /\ AtEnd(d)

\* The last call of the hub was op, and it is the step just taken.
JustCalled(op) == hub'.calls # hub.calls /\ hub'.op = op

\* C38: a call Register(U, c) or Unregister(U, c) leaves every other user V
\* as it was: V is a key after the call iff it was before, and V's set is the
\* same.
C38_OtherUsersUntouched ==
    /\ [](hub.op # "none" =>
            \A v \in Users \ {hub.u} :
                /\ (v \in DOMAIN clients) <=> (v \in DOMAIN hub.pre)
                /\ Conn(clients, v) = Conn(hub.pre, v))
    /\ [][(JustCalled("Register") \/ JustCalled("Unregister")) =>
            \A v \in Users \ {hub'.u} :
                /\ (v \in DOMAIN clients') <=> (v \in DOMAIN clients)
                /\ Conn(clients', v) = Conn(clients, v)]_vars

\* C38 witness: Unregister has just removed the key of one user while
\* another user has connections registered.
C38_Witness ==
    /\ hub.op = "Unregister"
    /\ hub.u \in DOMAIN hub.pre
    /\ hub.u \notin DOMAIN clients
    /\ \E v \in Users \ {hub.u} : Conn(clients, v) # {}

\* C39: Register of a connection that is already in the user's set leaves
\* the table as it was and returns false, and an Unregister of a connection
\* leaves it in the user's set no more, however many times it was registered.
C39_RegisterIsIdempotent ==
    /\ []((hub.op = "Register" /\ hub.c \in Conn(hub.pre, hub.u)) =>
            /\ clients = hub.pre
            /\ hub.ret = FALSE)
    /\ [][JustCalled("Unregister") =>
            /\ hub'.c \notin Conn(clients', hub'.u)
            /\ Conn(clients', hub'.u) = Conn(clients, hub'.u) \ {hub'.c}]_vars

\* C39 witness: the only connection of a user has just been registered a
\* second time.
C39_Witness ==
    /\ hub.op = "Register"
    /\ Conn(hub.pre, hub.u) = {hub.c}
    /\ hub.calls >= 2

TypeOK ==
    /\ DOMAIN clients \subseteq Users
    /\ \A u \in DOMAIN clients : clients[u] \subseteq FanoutConns
    /\ mu.w \subseteq FanoutConns /\ mu.r \subseteq FanoutConns
    /\ writes \subseteq Goroutines
    /\ \A c \in FanoutConns : hist[c].on \in BOOLEAN /\ Len(hist[c].steps) >= 0

====
